---- MODULE Spec2Model ----
(***************************************************************************)
(* A model of the libtest2 harness: Harness::main, discover, run and       *)
(* run_case of crates/libtest2-harness/src/harness.rs, with the shuffler   *)
(* of shuffle.rs and the run context of state.rs.                          *)
(*                                                                         *)
(* A case name is a sequence of characters; characters are the numbers     *)
(* 1..2 (read "a" and "b"), ordered as bytes are.  An Option<T> is a       *)
(* sequence of length at most one: <<>> is None and <<v>> is Some(v).      *)
(***************************************************************************)
EXTENDS Integers, Sequences, FiniteSets, TLC

(* Bounds of the model. *)
MaxCases == 3
MaxThreads == 2
MaxArgs == 3

None == <<>>
Some(v) == <<v>>

(***************************************************************************)
(* Strings: the order of String keys and str::contains.                    *)
(***************************************************************************)
RECURSIVE StrLess(_, _)
StrLess(a, b) ==
    IF a = <<>> THEN b # <<>>
    ELSE IF b = <<>> THEN FALSE
    ELSE IF a[1] # b[1] THEN a[1] < b[1]
    ELSE StrLess(Tail(a), Tail(b))

Contains(name, pat) ==
    \E i \in 0..(Len(name) - Len(pat)) : SubSeq(name, i + 1, i + Len(pat)) = pat

(***************************************************************************)
(* discover: cases.sort_unstable_by_key(name).  Names are unique within a  *)
(* run, so the unstable sort has one result.                                *)
(***************************************************************************)
(* Fault: a sort that puts every case in front without comparing. *)
Insert_front(sorted, x) == <<x>> \o sorted

RECURSIVE Insert(_, _)
Insert(sorted, x) ==
    IF sorted = <<>> THEN <<x>>
    ELSE IF StrLess(x, Head(sorted)) THEN <<x>> \o sorted
    ELSE <<Head(sorted)>> \o Insert(Tail(sorted), x)

(* Fault: a discover that does not sort before it shuffles. *)
SortByName_unsorted(s) == s

RECURSIVE SortByName(_)
SortByName(s) ==
    IF s = <<>> THEN <<>> ELSE Insert(SortByName(Tail(s)), Head(s))

(***************************************************************************)
(* shuffle.rs.  calculate_hash feeds std's DefaultHasher, which is not     *)
(* code of this repository: a small streaming hash over the same input     *)
(* (the bytes of every name, each closed by 0xff, behind the length of the *)
(* list; the two words of the pair) stands for it, on HashMod values.      *)
(***************************************************************************)
HashMod == 64

RECURSIVE HashBytes(_, _)
HashBytes(h, bytes) ==
    IF bytes = <<>> THEN h
    ELSE HashBytes((h * 33 + Head(bytes)) % HashMod, Tail(bytes))

RECURSIVE HashStrs(_, _)
HashStrs(h, strs) ==
    IF strs = <<>> THEN h
    ELSE HashStrs(HashBytes(h, Head(strs) \o <<255>>), Tail(strs))

calculate_hash_names(test_names) ==
    HashStrs(HashBytes(7, <<Len(test_names)>>), test_names)

calculate_hash_pair(state, extra) ==
    HashBytes(7, <<state, extra>>)

(* Rng::rand_u64: the new state, which is also the value returned. *)
rand_u64(state, extra) == calculate_hash_pair(state, extra)

(* Fault: a range that takes in its end. *)
rand_range_inclusive(r, n) == r % (n + 1)

(* Rng::rand_range(0..n) from the value rand_u64 returned. *)
rand_range(r, n) == r % n

Swap(s, i, j) ==
    [k \in 1..Len(s) |-> IF k = i THEN s[j] ELSE IF k = j THEN s[i] ELSE s[k]]

(* shuffle: for i in 0..len, randomize_first(rng, slice[i..]); positions *)
(* are 1-based here, i runs over 1..len.                                  *)
RECURSIVE ShuffleFrom(_, _, _, _)
ShuffleFrom(state, extra, s, i) ==
    IF i > Len(s) THEN s
    ELSE LET r == rand_u64(state, extra)
             idx == rand_range(r, Len(s) - i + 1)
         IN ShuffleFrom(r, extra, Swap(s, i, i + idx), i + 1)

shuffle_tests(shuffle_seed, tests) ==
    ShuffleFrom(shuffle_seed % HashMod, calculate_hash_names(tests), tests, 1)

(***************************************************************************)
(* discover: the selection rule (matches_filter, filtered_in,              *)
(* filtered_out, retain_case).                                             *)
(***************************************************************************)
(* Fault: a match that forgets --exact. *)
matches_filter_inexact(o, test_name, filter) == Contains(test_name, filter)

matches_filter(o, test_name, filter) ==
    IF o.filter_exact THEN test_name = filter ELSE Contains(test_name, filter)

filtered_in(o, name) ==
    \/ o.filters = <<>>
    \/ \E i \in 1..Len(o.filters) : matches_filter(o, name, o.filters[i])

filtered_out(o, name) ==
    /\ o.skip # <<>>
    /\ \E i \in 1..Len(o.skip) : matches_filter(o, name, o.skip[i])

(* Fault: a selection that forgets --skip. *)
retain_case_without_skip(o, name) == filtered_in(o, name)

retain_case(o, name) == filtered_in(o, name) /\ ~filtered_out(o, name)

(* Fault: a retain that puts what it keeps back in name order. *)
RECURSIVE Retain_sorted(_, _)
Retain_sorted(cs, flags) ==
    IF cs = <<>> THEN <<>>
    ELSE IF Head(flags) THEN Insert(Retain_sorted(Tail(cs), Tail(flags)), Head(cs))
    ELSE Retain_sorted(Tail(cs), Tail(flags))

(* cases.retain(|_| retain_cases.next().unwrap()) *)
RECURSIVE Retain(_, _)
Retain(cs, flags) ==
    IF cs = <<>> THEN <<>>
    ELSE (IF Head(flags) THEN <<Head(cs)>> ELSE <<>>) \o Retain(Tail(cs), Tail(flags))

(***************************************************************************)
(* The registered cases.  Every case of the universe has a name and a      *)
(* body; a body may first ask the run context to ignore it (State::ignore, *)
(* State::ignore_for) and then passes, fails or panics.  A case is a value *)
(* of a type of the user (impl Case): the thread that drops it last runs   *)
(* its destructor, which for the last three cases panics.                  *)
(***************************************************************************)
Universe ==
    { [name |-> <<1>>,    pre |-> "none",       end |-> "fail",      drop |-> "ok"],
      [name |-> <<1, 1>>, pre |-> "none",       end |-> "pass",      drop |-> "ok"],
      [name |-> <<1, 2>>, pre |-> "none",       end |-> "panic_str", drop |-> "ok"],
      [name |-> <<2>>,    pre |-> "ignore",     end |-> "panic_any", drop |-> "ok"],
      [name |-> <<2, 1>>, pre |-> "ignore_for", end |-> "fail",      drop |-> "ok"],
      [name |-> <<3>>,    pre |-> "none",       end |-> "pass",      drop |-> "panic"],
      [name |-> <<3, 1>>, pre |-> "none",       end |-> "fail",      drop |-> "panic"],
      [name |-> <<3, 2>>, pre |-> "ignore",     end |-> "pass",      drop |-> "panic"] }

Names == { c.name : c \in Universe }

Body(name) == CHOOSE c \in Universe : c.name = name

(* The cases whose destructor panics. *)
DropPanics(name) == Body(name).drop = "panic"

(* State::ignore and State::ignore_for: Ok, or the Ignored signal. *)
Ignore(ri) ==
    IF ri THEN [ok |-> TRUE, reason |-> None] ELSE [ok |-> FALSE, reason |-> None]

IgnoreFor(ri, reason) ==
    IF ri THEN [ok |-> TRUE, reason |-> None] ELSE [ok |-> FALSE, reason |-> Some(reason)]

(* run_case: the status and message of the CaseComplete of a body, with *)
(* catch_unwind turning a panic into RunError::fail.                    *)
PanicMessage(payload) ==
    IF payload = None THEN "test panicked" ELSE "test panicked: " \o payload[1]

EndOutcome(end) ==
    CASE end = "pass"      -> [status |-> None, message |-> None]
      [] end = "fail"      -> [status |-> Some("Failed"), message |-> Some("x")]
      [] end = "panic_str" -> [status |-> Some("Failed"), message |-> Some(PanicMessage(Some("uh oh")))]
      [] end = "panic_any" -> [status |-> Some("Failed"), message |-> Some(PanicMessage(None))]

Outcome(name, ri) ==
    LET b == Body(name)
        ign == CASE b.pre = "ignore"     -> Ignore(ri)
                 [] b.pre = "ignore_for" -> IgnoreFor(ri, "fails")
                 [] OTHER                -> [ok |-> TRUE, reason |-> None]
    IN IF ign.ok THEN EndOutcome(b.end)
       ELSE [status |-> Some("Ignored"), message |-> ign.reason]

(* run_case returns Ok(status != Some(Failed)). *)
CaseSuccess(out) == out.status # Some("Failed")

(***************************************************************************)
(* notify::Event.  The fields an event does not have are left empty.       *)
(***************************************************************************)
Ev(type, name, run, status, message, seed) ==
    [type |-> type, name |-> name, run |-> run, status |-> status,
     message |-> message, seed |-> seed]

EvDiscoverStart == Ev("DiscoverStart", <<>>, FALSE, None, None, None)
EvDiscoverCase(name, run) == Ev("DiscoverCase", name, run, None, None, None)
(* Fault: the discovery closed with the opening event. *)
EvDiscoverComplete_as_start(seed) == Ev("DiscoverStart", <<>>, FALSE, None, None, seed)
EvDiscoverComplete(seed) == Ev("DiscoverComplete", <<>>, FALSE, None, None, seed)
(* Fault: the run opens with the closing event. *)
EvSuiteStart_as_complete == Ev("SuiteComplete", <<>>, FALSE, None, None, None)
EvSuiteStart == Ev("SuiteStart", <<>>, FALSE, None, None, None)
EvCaseStart(name) == Ev("CaseStart", name, FALSE, None, None, None)
EvCaseComplete(name, out) == Ev("CaseComplete", name, FALSE, out.status, out.message, None)
EvSuiteComplete == Ev("SuiteComplete", <<>>, FALSE, None, None, None)

(***************************************************************************)
(* TestOpts, as far as discover and run read it.                           *)
(***************************************************************************)
MkOpts(filters, skip, exact, list, shuffle, shuffle_seed, threads, ff, ri) ==
    [filters |-> filters, skip |-> skip, filter_exact |-> exact, list |-> list,
     shuffle |-> shuffle, shuffle_seed |-> shuffle_seed, test_threads |-> threads,
     fail_fast |-> ff, run_ignored |-> ri, format |-> "Pretty"]

ThreadChoices == {None} \cup { Some(t) : t \in 1..MaxThreads }

(* The options of the runs explored.  Scheduling: every worker count   *)
(* with and without fail-fast over the unfiltered registry, and the    *)
(* widest pool once more with the ignored cases run.  Discovery, in    *)
(* sequential mode: the filters, skips and exact matching; listing and *)
(* shuffling with and without a filter; the run-ignored modes.         *)
SchedOpts ==
    { MkOpts(<<>>, <<>>, FALSE, FALSE, FALSE, None, t, ff, "No") :
        t \in ThreadChoices, ff \in BOOLEAN }
    \cup { MkOpts(<<>>, <<>>, FALSE, FALSE, FALSE, None, Some(MaxThreads), FALSE, "Yes") }

Filters == { <<>>, << <<1>> >>, << <<1, 1>>, <<2>> >> }
Skips == { <<>>, << <<2>> >>, << <<1, 2>> >> }
Seeds == { <<FALSE, None>>, <<TRUE, None>>, <<FALSE, Some(1)>>, <<TRUE, Some(1)>>,
           <<FALSE, Some(2)>> }

DiscoverOpts ==
    { MkOpts(f, s, ex, FALSE, FALSE, None, None, FALSE, "No") :
        f \in Filters, s \in Skips, ex \in BOOLEAN }
    \cup { MkOpts(f, <<>>, FALSE, l, sd[1], sd[2], None, FALSE, "No") :
             f \in { <<>>, << <<1>> >> }, l \in BOOLEAN, sd \in Seeds }
    \cup { MkOpts(<<>>, <<>>, FALSE, FALSE, FALSE, None, None, FALSE, ri) :
             ri \in {"Yes", "Only"} }

(* SystemTime::now() as nanoseconds: some number. *)
TimeSeeds == {3, 4}

(* Fault: an explicit seed that counts only under --shuffle. *)
get_shuffle_seed_needs_flag(o) ==
    IF ~o.shuffle THEN {None}
    ELSE IF o.shuffle_seed # None THEN {o.shuffle_seed}
    ELSE { Some(t) : t \in TimeSeeds }

(* shuffle::get_shuffle_seed: the seeds it may return. *)
get_shuffle_seed(o) ==
    IF o.shuffle_seed # None THEN {o.shuffle_seed}
    ELSE IF o.shuffle THEN { Some(t) : t \in TimeSeeds }
    ELSE {None}

(* run: threads and is_multithreaded. *)
Threads(o) == IF o.test_threads = None THEN 1 ELSE o.test_threads[1]
IsMultithreaded(o) == 1 < Threads(o)

(* Fault: a run-ignored mode that forgets Only. *)
RunIgnored_yes(o) == o.run_ignored = "Yes"

RunIgnored(o) == o.run_ignored \in {"Yes", "Only"}

Perms(S) ==
    { s \in [1..Cardinality(S) -> S] : \A i, j \in 1..Cardinality(S) : i # j => s[i] # s[j] }

(***************************************************************************)
(* lexarg: the command-line lexer.  Arguments are strings of one-byte      *)
(* characters; `@` stands for a byte that is no valid UTF-8, as in the     *)
(* tests' bad_string.  Byte offsets count from 0 as in the source.         *)
(***************************************************************************)
From(s, i) == SubSeq(s, i + 1, Len(s))
starts_with(s, prefix) == Len(s) >= Len(prefix) /\ SubSeq(s, 1, Len(prefix)) = prefix

(* str::split_once("="): the offset of the first `=`, Len(s) when absent. *)
FindEq(s) ==
    IF \E i \in 1..Len(s) : SubSeq(s, i, i) = "="
    THEN (CHOOSE i \in 1..Len(s) :
            /\ SubSeq(s, i, i) = "="
            /\ \A j \in 1..(i - 1) : SubSeq(s, j, j) # "=") - 1
    ELSE Len(s)

(* OsStrExt::try_str is Ok; Utf8Error::valid_up_to otherwise. *)
try_str(s) == \A i \in 1..Len(s) : SubSeq(s, i, i) # "@"
valid_up_to(s) ==
    IF try_str(s) THEN Len(s)
    ELSE (CHOOSE i \in 1..Len(s) :
            /\ SubSeq(s, i, i) = "@"
            /\ \A j \in 1..(i - 1) : SubSeq(s, j, j) # "@") - 1

(* split_nonutf8_once, with invalid.unwrap_or_default() *)
split_nonutf8_once(b) ==
    [valid |-> SubSeq(b, 1, valid_up_to(b)), invalid |-> From(b, valid_up_to(b))]

(* enum State, with Option<State>::None as the kind "None". *)
StNone == [kind |-> "None", attached |-> "", valid |-> "", invalid |-> "", index |-> 0]
PendingValue(attached) == [StNone EXCEPT !.kind = "PendingValue", !.attached = attached]
PendingShorts(valid, invalid, index) ==
    [StNone EXCEPT !.kind = "PendingShorts", !.valid = valid, !.invalid = invalid,
                   !.index = index]
Escaped == [StNone EXCEPT !.kind = "Escaped"]

(* State::has_pending, Parser::has_pending *)
has_pending(p) == p.state.kind \in {"PendingValue", "PendingShorts"}

(* enum Arg *)
Short(c) == [kind |-> "Short", v |-> c]
Long(n) == [kind |-> "Long", v |-> n]
Value(v) == [kind |-> "Value", v |-> v]
Escape == [kind |-> "Escape", v |-> ""]
Unexpected(v) == [kind |-> "Unexpected", v |-> v]

(* A method of the parser and the value it returned. *)
Returned(method, value) == [method |-> method, value |-> value]

Parser_new(raw) == [raw |-> raw, current |-> 0, state |-> StNone, was_attached |-> FALSE]

(* RawArgs::get *)
Get(raw, index) == IF index < Len(raw) THEN Some(raw[index + 1]) ELSE None

(* What a method leaves behind and what it returns, or that it panicked. *)
Ret(p, r) == [parser |-> p, ret |-> r, panicked |-> FALSE]
Panicked(p) == [parser |-> p, ret |-> None, panicked |-> TRUE]
Consumed(p) == [p EXCEPT !.state = StNone, !.current = p.current + 1]

(* Fault: a next_raw that does not move the cursor. *)
next_raw_stays(p) == Ret(p, Get(p.raw, p.current))

next_raw(p) ==
    IF Get(p.raw, p.current) = None
    THEN Ret(p, None)
    ELSE Ret([p EXCEPT !.current = p.current + 1], Get(p.raw, p.current))

(* Parser::bin: assert_eq!(self.current, 0) *)
bin(p) == IF p.current # 0 THEN Panicked(p) ELSE next_raw(p)

(* next(), in the middle of a -abc chain.  The two expect() calls and the *)
(* debug_assert_ne! (as in a build with debug assertions) panic.           *)
next_shorts(p) ==
    LET valid == p.state.valid
        invalid == p.state.invalid
        index == p.state.index
        unparsed == From(valid, index)
        short == SubSeq(unparsed, 1, 1)
        arg == p.raw[p.current + 1]
        unexpected_index ==
            IF index = 1 THEN 0 ELSE IF short = "=" THEN index + 1 ELSE index
    IN IF unparsed # ""
       THEN IF short \in {"=", "-"}
            THEN IF Get(p.raw, p.current) = None THEN Panicked(p)
                 ELSE Ret(Consumed(p), Some(Unexpected(From(arg, unexpected_index))))
            ELSE IF Len(unparsed) > 1
                 THEN Ret([p EXCEPT !.state = PendingShorts(valid, invalid, index + 1)],
                          Some(Short(short)))
                 ELSE IF invalid = ""
                      THEN Ret(Consumed(p), Some(Short(short)))
                      ELSE Ret([p EXCEPT !.state = PendingValue(invalid)],
                               Some(Short(short)))
       ELSE IF invalid = "" THEN Panicked(p)
       ELSE IF index = 1
            THEN IF Get(p.raw, p.current) = None THEN Panicked(p)
                 ELSE Ret(Consumed(p), Some(Unexpected(arg)))
            ELSE Ret(Consumed(p), Some(Unexpected(invalid)))

(* next(), with no state left over *)
next_fresh(p) ==
    LET arg == p.raw[p.current + 1]
        long == From(arg, 2)
        eq == FindEq(long)
        name == SubSeq(long, 1, eq)
    IN IF Get(p.raw, p.current) = None THEN Ret(p, None)
       ELSE IF arg = "--"
            THEN Ret([p EXCEPT !.state = Escaped, !.current = p.current + 1], Some(Escape))
       ELSE IF arg = "-" THEN Ret(Consumed(p), Some(Value(arg)))
       ELSE IF starts_with(arg, "--")
            THEN IF name = "" THEN Ret(Consumed(p), Some(Unexpected(arg)))
                 ELSE IF ~try_str(name) THEN Ret(Consumed(p), Some(Unexpected(arg)))
                 ELSE IF eq < Len(long)
                      THEN Ret([p EXCEPT !.state = PendingValue(From(long, eq + 1))],
                               Some(Long(name)))
                      ELSE Ret(Consumed(p), Some(Long(name)))
       ELSE IF starts_with(arg, "-")
            THEN next_shorts([p EXCEPT !.state =
                     PendingShorts(split_nonutf8_once(arg).valid,
                                   split_nonutf8_once(arg).invalid, 1)])
       ELSE Ret(Consumed(p), Some(Value(arg)))

(* Fault: an escaped parser that goes on lexing options. *)
next_forgets_escape(q) ==
    LET p == [q EXCEPT !.was_attached = FALSE]
    IN CASE p.state.kind = "PendingValue" ->
              Ret(Consumed(p), Some(Unexpected(p.state.attached)))
         [] p.state.kind = "PendingShorts" -> next_shorts(p)
         [] OTHER -> next_fresh([p EXCEPT !.state = StNone])

(* Fault: a next() that hands out the attached value and keeps it. *)
next_keeps_attached(q) ==
    LET p == [q EXCEPT !.was_attached = FALSE]
    IN CASE p.state.kind = "PendingValue" ->
              Ret(p, Some(Unexpected(p.state.attached)))
         [] p.state.kind = "PendingShorts" -> next_shorts(p)
         [] p.state.kind = "Escaped" ->
              LET r == next_raw(p)
              IN Ret(r.parser, IF r.ret = None THEN None ELSE Some(Value(r.ret[1])))
         [] OTHER -> next_fresh(p)

(* Parser::next *)
next(q) ==
    LET p == [q EXCEPT !.was_attached = FALSE]
    IN CASE p.state.kind = "PendingValue" ->
              Ret(Consumed(p), Some(Unexpected(p.state.attached)))
         [] p.state.kind = "PendingShorts" -> next_shorts(p)
         [] p.state.kind = "Escaped" ->
              LET r == next_raw(p)
              IN Ret(r.parser, IF r.ret = None THEN None ELSE Some(Value(r.ret[1])))
         [] OTHER -> next_fresh(p)

(* Fault: a next_attached_value that reads the attached value and leaves it. *)
next_attached_value_peeks(p) ==
    LET arg == p.raw[p.current + 1]
        remainder == From(arg, p.state.index)
    IN CASE p.state.kind = "PendingValue" -> Ret(p, Some(p.state.attached))
         [] p.state.kind = "PendingShorts" -> Ret(p, Some(remainder))
         [] OTHER -> Ret(p, None)

next_attached_value(p) ==
    LET arg == p.raw[p.current + 1]
        remainder == From(arg, p.state.index)
        eq == FindEq(remainder)
    IN CASE p.state.kind = "None" -> Ret(p, None)
         [] p.state.kind = "PendingValue" -> Ret(Consumed(p), Some(p.state.attached))
         [] p.state.kind = "PendingShorts" ->
              IF Get(p.raw, p.current) = None THEN Panicked(p)
              ELSE IF p.state.index = Len(arg) THEN Ret(Consumed(p), None)
              ELSE Ret(Consumed(p),
                       Some(IF eq < Len(remainder) THEN From(remainder, eq + 1)
                            ELSE remainder))
         [] OTHER -> Ret(p, None)

next_value(p) ==
    LET r == next_raw(p)
    IN IF p.state.kind = "Escaped" THEN Ret(p, None)
       ELSE IF r.ret = None THEN r
       ELSE IF r.ret[1] = "--" THEN Ret([r.parser EXCEPT !.state = Escaped], None)
       ELSE r

(* Fault: a flag_value that does not remember the attached value it gave. *)
flag_value_forgets(p) ==
    LET a == next_attached_value(p)
    IN IF a.ret # None THEN a ELSE next_value(a.parser)

(* Parser::flag_value *)
flag_value(p) ==
    LET a == next_attached_value(p)
    IN IF a.panicked THEN a
       ELSE IF a.ret # None THEN Ret([a.parser EXCEPT !.was_attached = TRUE], a.ret)
       ELSE IF ~a.parser.was_attached THEN next_value(a.parser)
       ELSE Ret(a.parser, None)

(***************************************************************************)
(* libtest-lexarg: the options the arguments stand for.                    *)
(***************************************************************************)
Digits == <<"0", "1", "2", "3", "4", "5", "6", "7", "8", "9">>
IsDigit(c) == \E d \in 1..10 : Digits[d] = c
DigitOf(c) == (CHOOSE d \in 1..10 : Digits[d] = c) - 1

(* str::parse::<u64>: Some(n), or None when the text is no number. *)
RECURSIVE ParseNum(_)
ParseNum(s) ==
    IF s = "" \/ \E i \in 1..Len(s) : ~IsDigit(SubSeq(s, i, i)) THEN None
    ELSE IF Len(s) = 1 THEN Some(DigitOf(s))
    ELSE Some(10 * ParseNum(SubSeq(s, 1, Len(s) - 1))[1] + DigitOf(SubSeq(s, Len(s), Len(s))))

(* A filter as the name fragment it stands for (names are digit strings). *)
NameOfStr(s) == [i \in 1..Len(s) |-> DigitOf(SubSeq(s, i, i))]

TestOpts_default == MkOpts(<<>>, <<>>, FALSE, FALSE, FALSE, None, None, FALSE, "No")

TestOptsBuilder_new ==
    [opts |-> TestOpts_default, allowed_unstable |-> {}, force_run_in_process |-> FALSE,
     exclude_should_panic |-> FALSE, quiet |-> FALSE, format |-> None,
     include_ignored |-> FALSE, ignored |-> FALSE]

UNSTABLE_OPTIONS == "unstable-options"

(* Flags parse_next takes that change nothing the harness reads. *)
PlainFlags == {"test", "bench", "nocapture", "show-output", "report-time", "ensure-time"}
Formats ==
    [pretty |-> "Pretty", terse |-> "Terse", json |-> "Json", junit |-> "Junit"]

(* What parse_next returns: Ok(None), Ok(Some(arg)) or Err. *)
Parsed(b, p, result) == [builder |-> b, parser |-> p, result |-> result]

(* TestOptsBuilder::parse_next; `nightly` is is_nightly(). *)
parse_next(b, p, arg, nightly) ==
    LET fv == flag_value(p)
        v == fv.ret
        num == ParseNum(v[1])
        long(n) == arg.kind = "Long" /\ arg.v = n
    IN CASE long("include-ignored") -> Parsed([b EXCEPT !.include_ignored = TRUE], p, "Ok")
         [] long("ignored") -> Parsed([b EXCEPT !.ignored = TRUE], p, "Ok")
         [] long("force-run-in-process") ->
              Parsed([b EXCEPT !.force_run_in_process = TRUE], p, "Ok")
         [] long("exclude-should-panic") ->
              Parsed([b EXCEPT !.exclude_should_panic = TRUE], p, "Ok")
         [] long("list") -> Parsed([b EXCEPT !.opts.list = TRUE], p, "Ok")
         [] arg.kind = "Long" /\ arg.v \in PlainFlags -> Parsed(b, p, "Ok")
         [] long("test-threads") ->
              IF v = None \/ num = None \/ num = Some(0) THEN Parsed(b, fv.parser, "Err")
              ELSE Parsed([b EXCEPT !.opts.test_threads = num], fv.parser, "Ok")
         [] long("skip") ->
              IF v = None THEN Parsed(b, fv.parser, "Err")
              ELSE Parsed([b EXCEPT !.opts.skip = Append(@, NameOfStr(v[1]))], fv.parser, "Ok")
         [] long("exact") -> Parsed([b EXCEPT !.opts.filter_exact = TRUE], p, "Ok")
         [] long("color") ->
              IF v = None \/ v[1] \notin {"auto", "always", "never"}
              THEN Parsed(b, fv.parser, "Err")
              ELSE Parsed(b, fv.parser, "Ok")
         [] (arg.kind = "Short" /\ arg.v = "q") \/ long("quiet") ->
              Parsed([b EXCEPT !.format = None, !.quiet = TRUE], p, "Ok")
         [] long("format") ->
              IF v = None \/ v[1] \notin DOMAIN Formats
              THEN Parsed([b EXCEPT !.quiet = FALSE], fv.parser, "Err")
              ELSE Parsed([b EXCEPT !.quiet = FALSE, !.format = Some(Formats[v[1]])],
                          fv.parser, "Ok")
         [] arg.kind = "Short" /\ arg.v = "Z" ->
              IF v = None \/ ~nightly THEN Parsed(b, fv.parser, "Err")
              ELSE Parsed([b EXCEPT !.allowed_unstable = @ \cup {v[1]}], fv.parser, "Ok")
         [] long("shuffle") -> Parsed([b EXCEPT !.opts.shuffle = TRUE], p, "Ok")
         [] long("shuffle-seed") ->
              IF v = None \/ num = None THEN Parsed(b, fv.parser, "Err")
              ELSE Parsed([b EXCEPT !.opts.shuffle_seed = num], fv.parser, "Ok")
         [] arg.kind = "Value" ->
              Parsed([b EXCEPT !.opts.filters = Append(@, NameOfStr(arg.v))], p, "Ok")
         [] OTHER -> Parsed(b, p, "Unhandled")

(* The environment finish reads: each variable unset (None) or set. *)
EnvUnset == [RUST_TEST_SHUFFLE |-> None, RUST_TEST_SHUFFLE_SEED |-> None,
             RUST_TEST_THREADS |-> None]
Envs ==
    { EnvUnset,
      [EnvUnset EXCEPT !.RUST_TEST_THREADS = Some("2")],
      [EnvUnset EXCEPT !.RUST_TEST_THREADS = Some("0")],
      [EnvUnset EXCEPT !.RUST_TEST_SHUFFLE = Some("1"), !.RUST_TEST_SHUFFLE_SEED = Some("x")] }

(* Fault: a finish that lets unstable flags through without the permit. *)
finish_unchecked(b, env) ==
    [ok |-> ~(b.include_ignored /\ b.ignored),
     opts |-> [b.opts EXCEPT
                 !.format = IF b.format # None THEN b.format[1]
                            ELSE IF b.quiet THEN "Terse" ELSE @,
                 !.run_ignored = IF b.include_ignored THEN "Yes"
                                 ELSE IF b.ignored THEN "Only" ELSE "No"]]

(* TestOptsBuilder::finish: Ok(opts), or Err. *)
finish(b, env) ==
    LET allow_unstable_options == UNSTABLE_OPTIONS \in b.allowed_unstable
        shuffle ==
            IF ~b.opts.shuffle /\ allow_unstable_options
            THEN env.RUST_TEST_SHUFFLE # None /\ env.RUST_TEST_SHUFFLE # Some("0")
            ELSE b.opts.shuffle
        seed_from_env == b.opts.shuffle_seed = None /\ allow_unstable_options
        shuffle_seed ==
            IF seed_from_env /\ env.RUST_TEST_SHUFFLE_SEED # None
            THEN ParseNum(env.RUST_TEST_SHUFFLE_SEED[1])
            ELSE b.opts.shuffle_seed
        threads_from_env == b.opts.test_threads = None /\ env.RUST_TEST_THREADS # None
        test_threads ==
            IF threads_from_env THEN ParseNum(env.RUST_TEST_THREADS[1])
            ELSE b.opts.test_threads
        err ==
            \/ b.force_run_in_process /\ ~allow_unstable_options
            \/ b.exclude_should_panic /\ ~allow_unstable_options
            \/ b.opts.shuffle /\ ~allow_unstable_options
            \/ b.opts.shuffle_seed # None /\ ~allow_unstable_options
            \/ seed_from_env /\ env.RUST_TEST_SHUFFLE_SEED # None /\ shuffle_seed = None
            \/ b.format # None /\ ~allow_unstable_options
            \/ b.include_ignored /\ b.ignored
            \/ threads_from_env /\ test_threads \in {None, Some(0)}
    IN [ok |-> ~err,
        opts |-> [b.opts EXCEPT
                    !.shuffle = shuffle,
                    !.shuffle_seed = shuffle_seed,
                    !.test_threads = test_threads,
                    !.format = IF b.format # None THEN b.format[1]
                               ELSE IF b.quiet THEN "Terse" ELSE @,
                    !.run_ignored = IF b.include_ignored THEN "Yes"
                                    ELSE IF b.ignored THEN "Only" ELSE "No"]]

(***************************************************************************)
(* The state of one run of Harness::main.                                  *)
(***************************************************************************)
VARIABLES
    opts,           \* TestOpts (main sets test_threads when one case is left)
    registry,       \* the names registered with Harness::case / cases
    cases,          \* self.cases: the Vec<Box<dyn Case>>, by name
    pc,             \* where the coordinating (main) thread is
    retain_cases,   \* discover: the flags pushed so far
    seed,           \* discover: the seed get_shuffle_seed returned
    delivered,      \* the events the notifier has accepted, in order
    threaded,       \* the hint given with Notifier::threaded, None before
    run_ignored,    \* State.run_ignored
    success,        \* run: success
    sync_success,   \* run: the AtomicBool the workers share
    pending,        \* run: pending
    running_tests,  \* run: the keys of the TestMap
    remaining,      \* run: the VecDeque, or what the for loop has left
    chan,           \* the mpsc channel: events sent and not yet received
    wpc,            \* where the worker thread of each case is
    cur,            \* the case run_case is running in the main thread
    runs,           \* how many times the body of each case was invoked
    launched,       \* the cases taken from the queue, in order
    io_error,       \* an io::Error ended the run
    exitCode,       \* the code std::process::exit was called with
    parser,         \* the lexarg Parser over the raw arguments
    test_opts,      \* parse: the TestOptsBuilder
    ret,            \* the method last called on the parser and what it returned
    stderr,         \* the configuration errors main has printed
    raw_type,       \* the type behind the parser's &dyn RawArgs
    rng,            \* shuffle: the Rng, None outside shuffle
    shuffle_i       \* shuffle: i of `for i in 0..slice.len()`

vars ==
    << opts, registry, cases, pc, retain_cases, seed, delivered, threaded,
       run_ignored, success, sync_success, pending, running_tests, remaining,
       chan, wpc, cur, runs, launched, io_error, exitCode, parser, test_opts, ret,
       stderr, raw_type, rng, shuffle_i >>

shuffleVars == << rng, shuffle_i >>
cliVars == << parser, test_opts, ret, stderr, raw_type, shuffleVars >>
discoverVars == << retain_cases, seed >>
runVars ==
    << threaded, run_ignored, success, sync_success, pending, running_tests,
       remaining, chan, wpc, cur, runs, launched >>

(* The registries explored: any MaxCases of the cases for discovery; for *)
(* scheduling the second ignoring case is left out (in a pool it differs *)
(* from the first by its message only).                                  *)
QuietNames == { n \in Names : ~DropPanics(n) }
SchedNames == QuietNames \ {<<2, 1>>}

Inputs ==
    { <<r, o>> \in (SUBSET SchedNames) \X SchedOpts : Cardinality(r) <= MaxCases }
    \cup { <<r, o>> \in (SUBSET QuietNames) \X DiscoverOpts : Cardinality(r) <= MaxCases }

(* What run and discover start from: nothing delivered, no thread. *)
Fresh ==
    /\ retain_cases = <<>>
    /\ seed = None
    /\ delivered = <<>>
    /\ threaded = None
    /\ run_ignored = FALSE
    /\ success = TRUE
    /\ sync_success = TRUE
    /\ pending = 0
    /\ running_tests = {}
    /\ remaining = <<>>
    /\ chan = <<>>
    /\ wpc = [n \in Names |-> "idle"]
    /\ cur = None
    /\ runs = [n \in Names |-> 0]
    /\ launched = <<>>
    /\ io_error = FALSE
    /\ exitCode = None

InitWith(ins) ==
    /\ \E in \in ins :
         /\ registry = in[1]
         /\ opts = in[2]
         /\ cases \in Perms(in[1])
    /\ pc = "discover"
    /\ Fresh
    /\ parser = Parser_new(<<>>)
    /\ test_opts = TestOptsBuilder_new
    /\ ret = Returned("new", None)
    /\ stderr = <<>>
    /\ raw_type = "Vec"
    /\ rng = None
    /\ shuffle_i = 0

Init == InitWith(Inputs)

(* Fault: an error of the notifier that is noted and passed over. *)
Abort_continues(code) ==
    /\ pc' = pc
    /\ io_error' = TRUE
    /\ exitCode' = exitCode

(* notifier.notify(event)? returning Err: main prints the error and exits. *)
Abort(code) ==
    /\ pc' = "exit"
    /\ io_error' = TRUE
    /\ exitCode' = Some(code)

(* std::process::exit: the worker threads and the channel end with the *)
(* process.                                                            *)
ExitThreads ==
    /\ chan' = <<>>
    /\ wpc' = [n \in Names |-> "idle"]

(* How the thread of a worker ends: the closure drops the case it holds *)
(* (the coordinator let go of its clone when the spawn returned), and a *)
(* panic of that destructor is what join() returns as Err.              *)
ThreadEnd(n) == IF DropPanics(n) THEN "panicked" ELSE "finished"

EXIT_FAILURE == 1
ERROR_EXIT_CODE == 101

(***************************************************************************)
(* discover                                                                *)
(***************************************************************************)
DiscoverStart ==
    /\ pc = "discover"
    /\ \/ /\ delivered' = Append(delivered, EvDiscoverStart)
          /\ \E s \in get_shuffle_seed(opts) :
               /\ seed' = s
               /\ cases' = IF s = None THEN SortByName(cases)
                           ELSE shuffle_tests(s[1], SortByName(cases))
          /\ pc' = "discover_case"
          /\ UNCHANGED << io_error, exitCode >>
       \/ /\ Abort(EXIT_FAILURE)
          /\ UNCHANGED << delivered, seed, cases >>
    /\ UNCHANGED << opts, registry, cliVars, retain_cases >>
    /\ UNCHANGED runVars

DiscoverCase ==
    /\ pc = "discover_case"
    /\ Len(retain_cases) < Len(cases)
    /\ LET name == cases[Len(retain_cases) + 1]
           run == retain_case(opts, name)
       IN /\ retain_cases' = Append(retain_cases, run)
          /\ \/ /\ delivered' = Append(delivered, EvDiscoverCase(name, run))
                /\ UNCHANGED << pc, io_error, exitCode >>
             \/ /\ Abort(EXIT_FAILURE)
                /\ UNCHANGED delivered
    /\ UNCHANGED << opts, registry, cliVars, cases, seed >>
    /\ UNCHANGED runVars

(* Fault: a main that runs the cases it was asked to list. *)
DiscoverComplete_runs_listed ==
    /\ pc = "discover_case"
    /\ Len(retain_cases) = Len(cases)
    /\ cases' = Retain(cases, retain_cases)
    /\ \/ /\ delivered' = Append(delivered, EvDiscoverComplete(seed))
          /\ opts' = IF Len(cases') = 1
                     THEN [opts EXCEPT !.test_threads = Some(1)] ELSE opts
          /\ pc' = "run"
          /\ UNCHANGED << io_error, exitCode >>
       \/ /\ Abort(EXIT_FAILURE)
          /\ UNCHANGED << delivered, opts >>
    /\ UNCHANGED << registry, cliVars, retain_cases, seed >>
    /\ UNCHANGED runVars

(* The end of discover, and main up to the call of run. *)
(* Fault: a main that leaves the worker count alone when one case is left. *)
DiscoverComplete_keeps_threads ==
    /\ pc = "discover_case"
    /\ Len(retain_cases) = Len(cases)
    /\ cases' = Retain(cases, retain_cases)
    /\ \/ /\ delivered' = Append(delivered, EvDiscoverComplete(seed))
          /\ opts' = opts
          /\ IF opts.list
             THEN pc' = "exit" /\ exitCode' = Some(0)
             ELSE pc' = "run" /\ UNCHANGED exitCode
          /\ UNCHANGED io_error
       \/ /\ Abort(EXIT_FAILURE)
          /\ UNCHANGED << delivered, opts >>
    /\ UNCHANGED << registry, cliVars, retain_cases, seed >>
    /\ UNCHANGED runVars

DiscoverComplete ==
    /\ pc = "discover_case"
    /\ Len(retain_cases) = Len(cases)
    /\ cases' = Retain(cases, retain_cases)
    /\ \/ /\ delivered' = Append(delivered, EvDiscoverComplete(seed))
          /\ opts' = IF Len(cases') = 1
                     THEN [opts EXCEPT !.test_threads = Some(1)] ELSE opts
          /\ IF opts.list
             THEN pc' = "exit" /\ exitCode' = Some(0)
             ELSE pc' = "run" /\ UNCHANGED exitCode
          /\ UNCHANGED io_error
       \/ /\ Abort(EXIT_FAILURE)
          /\ UNCHANGED << delivered, opts >>
    /\ UNCHANGED << registry, cliVars, retain_cases, seed >>
    /\ UNCHANGED runVars

(***************************************************************************)
(* run                                                                     *)
(***************************************************************************)
(* while pending > 0 || !remaining.is_empty() *)
(* Fault: an outer loop that forgets the workers still pending. *)
LoopContinues_queue_only(p, r) == r # <<>>

LoopContinues(p, r) == p > 0 \/ r # <<>>

(* Fault: a pool that admits one worker too many. *)
CanSpawn_off_by_one(p, t, r) == p <= t /\ r # <<>>

(* while pending < threads && !remaining.is_empty() *)
CanSpawn(p, t, r) == p < t /\ r # <<>>

(* Faults: a fail-fast that never breaks, and one that breaks on any case. *)
FailFastBreak_never(succ, o) == FALSE
FailFastBreak_always(succ, o) == o.fail_fast

(* if !success && opts.fail_fast { break; } *)
FailFastBreak(succ, o) == ~succ /\ o.fail_fast

(* Fault: a join that passes every event on as it came. *)
join_passes_on(ev, is_err) == ev

(* RunningTest::join: a worker that panicked after reporting success. *)
join(ev, is_err) ==
    IF is_err /\ ev.type = "CaseComplete" /\ ev.status = None
    THEN [ev EXCEPT !.status = Some("Failed"),
                    !.message = Some("panicked after reporting success")]
    ELSE ev

(* run, from SuiteStart to the first loop. *)
SuiteStart ==
    /\ pc = "run"
    /\ \/ /\ delivered' = Append(delivered, EvSuiteStart)
          /\ threaded' = Some(IsMultithreaded(opts))
          /\ run_ignored' = RunIgnored(opts)
          /\ success' = TRUE
          /\ sync_success' = TRUE
          /\ pending' = 0
          /\ running_tests' = {}
          /\ remaining' = cases
          /\ pc' = IF IsMultithreaded(opts)
                   THEN (IF LoopContinues(0, cases) THEN "loop" ELSE "suite_complete")
                   ELSE "for"
          /\ UNCHANGED << io_error, exitCode >>
       \/ /\ Abort(ERROR_EXIT_CODE)
          /\ UNCHANGED << delivered, threaded, run_ignored, success, sync_success,
                          pending, running_tests, remaining >>
    /\ UNCHANGED << opts, registry, cliVars, cases, chan, wpc, cur, runs, launched >>
    /\ UNCHANGED discoverVars

(* Fault: a loop that runs the case at the front once more before it moves on. *)
ForNext_peeks ==
    /\ pc = "for"
    /\ IF remaining = <<>>
       THEN /\ pc' = "suite_complete"
            /\ UNCHANGED << remaining, cur, launched >>
       ELSE /\ cur' = Some(Head(remaining))
            /\ remaining' = IF runs[Head(remaining)] = 0 THEN remaining ELSE Tail(remaining)
            /\ launched' = Append(launched, Head(remaining))
            /\ pc' = "case_start"
    /\ UNCHANGED << opts, registry, cliVars, cases, delivered, threaded, run_ignored, success,
                    sync_success, pending, running_tests, chan, wpc, runs,
                    io_error, exitCode >>
    /\ UNCHANGED discoverVars

(* Sequential mode: for case in cases. *)
ForNext ==
    /\ pc = "for"
    /\ IF remaining = <<>>
       THEN /\ pc' = "suite_complete"
            /\ UNCHANGED << remaining, cur, launched >>
       ELSE /\ cur' = Some(Head(remaining))
            /\ remaining' = Tail(remaining)
            /\ launched' = Append(launched, Head(remaining))
            /\ pc' = "case_start"
    /\ UNCHANGED << opts, registry, cliVars, cases, delivered, threaded, run_ignored, success,
                    sync_success, pending, running_tests, chan, wpc, runs,
                    io_error, exitCode >>
    /\ UNCHANGED discoverVars

(* run_case in the main thread: the CaseStart. *)
RunCaseStart ==
    /\ pc = "case_start"
    /\ \/ /\ delivered' = Append(delivered, EvCaseStart(cur[1]))
          /\ pc' = "case_body"
          /\ UNCHANGED << io_error, exitCode >>
          /\ UNCHANGED << chan, wpc >>
       \/ /\ Abort(ERROR_EXIT_CODE)
          /\ ExitThreads
          /\ UNCHANGED delivered
    /\ UNCHANGED << opts, registry, cliVars, cases, threaded, run_ignored, success,
                    sync_success, pending, running_tests, remaining, cur, runs,
                    launched >>
    /\ UNCHANGED discoverVars

(* What the caller of run_case does with Ok(case_success): the for loop  *)
(* folds it into success and may break; the spawn fallback stores a      *)
(* failure in sync_success and goes on with the inner loop.              *)
SeqSuccess(succ, case_success) == succ /\ case_success

(* Fault: a failure that is not stored. *)
Store_dropped(flag, case_success) == flag

Store(flag, case_success) == IF ~case_success THEN FALSE ELSE flag

(* run_case in the main thread: the body, the CaseComplete, the return, *)
(* and the end of the turn of the loop, where the main thread drops the *)
(* case: a destructor that panics there ends the process (status 101).  *)
RunCaseBody ==
    /\ pc = "case_body"
    /\ runs' = [runs EXCEPT ![cur[1]] = @ + 1]
    /\ LET out == Outcome(cur[1], run_ignored)
       IN \/ /\ delivered' = Append(delivered, EvCaseComplete(cur[1], out))
             /\ cur' = None
             /\ IF IsMultithreaded(opts)
                THEN /\ sync_success' = Store(sync_success, CaseSuccess(out))
                     /\ pc' = IF DropPanics(cur[1]) THEN "exit" ELSE "loop"
                     /\ UNCHANGED success
                ELSE /\ success' = SeqSuccess(success, CaseSuccess(out))
                     /\ pc' = IF DropPanics(cur[1]) THEN "exit"
                              ELSE IF FailFastBreak(success', opts)
                              THEN "suite_complete" ELSE "for"
                     /\ UNCHANGED sync_success
             /\ IF DropPanics(cur[1])
                THEN exitCode' = Some(ERROR_EXIT_CODE) /\ ExitThreads
                ELSE UNCHANGED << exitCode, chan, wpc >>
             /\ UNCHANGED io_error
          \/ /\ Abort(ERROR_EXIT_CODE)
             /\ ExitThreads
             /\ UNCHANGED << delivered, cur, success, sync_success >>
    /\ UNCHANGED << opts, registry, cliVars, cases, threaded, run_ignored, pending,
                    running_tests, remaining, launched >>
    /\ UNCHANGED discoverVars

(* Concurrent mode: one turn of the inner loop, cfg.spawn and its three *)
(* results.                                                             *)
Spawn ==
    /\ pc = "loop"
    /\ CanSpawn(pending, Threads(opts), remaining)
    /\ LET name == Head(remaining)
       IN /\ remaining' = Tail(remaining)
          /\ launched' = Append(launched, name)
          /\ \/ /\ wpc' = [wpc EXCEPT ![name] = "start"]
                /\ running_tests' = running_tests \cup {name}
                /\ pending' = pending + 1
                /\ UNCHANGED << pc, cur, chan, io_error, exitCode >>
             \/ /\ cur' = Some(name)
                /\ pc' = "case_start"
                /\ UNCHANGED << wpc, chan, running_tests, pending, io_error, exitCode >>
             \/ /\ Abort(ERROR_EXIT_CODE)
                /\ ExitThreads
                /\ UNCHANGED << running_tests, pending, cur >>
    /\ UNCHANGED << opts, registry, cliVars, cases, delivered, threaded, run_ignored, success,
                    sync_success, runs >>
    /\ UNCHANGED discoverVars

(* Fault: a turn of the outer loop that leaves the entry of the worker *)
(* in running_tests.                                                  *)
Recv_keeps_entry ==
    /\ pc = "loop"
    /\ ~CanSpawn(pending, Threads(opts), remaining)
    /\ chan # <<>>
    /\ LET ev == Head(chan)
           done == ev.type = "CaseComplete"
       IN /\ done => wpc[ev.name] \in {"finished", "panicked"}
          /\ running_tests' = running_tests
          /\ pending' = IF done THEN pending - 1 ELSE pending
          /\ \/ /\ delivered' = Append(delivered, join(ev, wpc[ev.name] = "panicked"))
                /\ chan' = Tail(chan)
                /\ success' = (success /\ sync_success)
                /\ pc' = IF FailFastBreak(success', opts) THEN "suite_complete"
                         ELSE IF LoopContinues(pending', remaining) THEN "loop"
                         ELSE "suite_complete"
                /\ UNCHANGED << io_error, exitCode, wpc >>
             \/ /\ Abort(ERROR_EXIT_CODE)
                /\ ExitThreads
                /\ UNCHANGED << delivered, success >>
    /\ UNCHANGED << opts, registry, cliVars, cases, threaded, run_ignored, sync_success,
                    remaining, cur, runs, launched >>
    /\ UNCHANGED discoverVars

(* One turn of the outer loop behind the inner loop: rx.recv(); for a  *)
(* CaseComplete the removal from running_tests and the join, which     *)
(* returns once the worker thread has ended; notifier.notify(event)?;  *)
(* success &= sync_success.load(); the fail-fast break and the test of *)
(* the outer loop.  The event received is the head of the channel      *)
(* whenever it is taken, and a thread that has ended stays ended, so   *)
(* the turn is taken in one step, at the moment of the load.           *)
Recv ==
    /\ pc = "loop"
    /\ ~CanSpawn(pending, Threads(opts), remaining)
    /\ chan # <<>>
    /\ LET ev == Head(chan)
           done == ev.type = "CaseComplete"
       IN /\ done => wpc[ev.name] \in {"finished", "panicked"}
          /\ running_tests' = IF done THEN running_tests \ {ev.name} ELSE running_tests
          /\ pending' = IF done THEN pending - 1 ELSE pending
          /\ \/ /\ delivered' = Append(delivered, join(ev, wpc[ev.name] = "panicked"))
                /\ chan' = Tail(chan)
                /\ success' = (success /\ sync_success)
                /\ pc' = IF FailFastBreak(success', opts) THEN "suite_complete"
                         ELSE IF LoopContinues(pending', remaining) THEN "loop"
                         ELSE "suite_complete"
                /\ UNCHANGED << io_error, exitCode, wpc >>
             \/ /\ Abort(ERROR_EXIT_CODE)
                /\ ExitThreads
                /\ UNCHANGED << delivered, success >>
    /\ UNCHANGED << opts, registry, cliVars, cases, threaded, run_ignored, sync_success,
                    remaining, cur, runs, launched >>
    /\ UNCHANGED discoverVars

(* Fault: an exit code that forgets the failures. *)
ExitCodeOf_success(succ) == 0

(* main: the exit code for what run returned. *)
ExitCodeOf(succ) == IF succ THEN 0 ELSE ERROR_EXIT_CODE

SuiteComplete ==
    /\ pc = "suite_complete"
    /\ \/ /\ delivered' = Append(delivered, EvSuiteComplete)
          /\ pc' = "exit"
          /\ exitCode' = Some(ExitCodeOf(success))
          /\ UNCHANGED io_error
       \/ /\ Abort(ERROR_EXIT_CODE)
          /\ UNCHANGED delivered
    /\ ExitThreads
    /\ UNCHANGED << opts, registry, cliVars, cases, threaded, run_ignored, success,
                    sync_success, pending, running_tests, remaining, cur, runs,
                    launched >>
    /\ UNCHANGED discoverVars

(***************************************************************************)
(* A worker thread: run_case with the SenderNotifier, then the store.      *)
(* std::process::exit ends the workers still running.                      *)
(***************************************************************************)
(* Fault: a worker that calls the notifier itself. *)
WorkerCaseStart_renders(n) ==
    /\ pc # "exit"
    /\ wpc[n] = "start"
    /\ delivered' = Append(delivered, EvCaseStart(n))
    /\ wpc' = [wpc EXCEPT ![n] = "body"]
    /\ UNCHANGED << opts, registry, cliVars, cases, pc, threaded, run_ignored,
                    success, sync_success, pending, running_tests, remaining,
                    chan, cur, runs, launched, io_error, exitCode >>
    /\ UNCHANGED discoverVars

(* Fault: a worker that starts its case without sending CaseStart. *)
WorkerCaseStart_silent(n) ==
    /\ pc # "exit"
    /\ wpc[n] = "start"
    /\ wpc' = [wpc EXCEPT ![n] = "body"]
    /\ UNCHANGED << opts, registry, cliVars, cases, pc, delivered, threaded, run_ignored,
                    success, sync_success, pending, running_tests, remaining,
                    chan, cur, runs, launched, io_error, exitCode >>
    /\ UNCHANGED discoverVars

WorkerCaseStart(n) ==
    /\ pc # "exit"
    /\ wpc[n] = "start"
    /\ chan' = Append(chan, EvCaseStart(n))
    /\ wpc' = [wpc EXCEPT ![n] = "body"]
    /\ UNCHANGED << opts, registry, cliVars, cases, pc, delivered, threaded, run_ignored,
                    success, sync_success, pending, running_tests, remaining,
                    cur, runs, launched, io_error, exitCode >>
    /\ UNCHANGED discoverVars

WorkerCaseBody(n) ==
    /\ pc # "exit"
    /\ wpc[n] = "body"
    /\ runs' = [runs EXCEPT ![n] = @ + 1]
    /\ chan' = Append(chan, EvCaseComplete(n, Outcome(n, run_ignored)))
    /\ wpc' = [wpc EXCEPT ![n] = IF CaseSuccess(Outcome(n, run_ignored))
                                 THEN ThreadEnd(n) ELSE "store"]
    /\ UNCHANGED << opts, registry, cliVars, cases, pc, delivered, threaded, run_ignored,
                    success, sync_success, pending, running_tests, remaining,
                    cur, launched, io_error, exitCode >>
    /\ UNCHANGED discoverVars

WorkerStore(n) ==
    /\ pc # "exit"
    /\ wpc[n] = "store"
    /\ sync_success' = Store(sync_success, CaseSuccess(Outcome(n, run_ignored)))
    /\ wpc' = [wpc EXCEPT ![n] = ThreadEnd(n)]
    /\ UNCHANGED << opts, registry, cliVars, cases, pc, delivered, threaded, run_ignored,
                    success, pending, running_tests, remaining, chan,
                    cur, runs, launched, io_error, exitCode >>
    /\ UNCHANGED discoverVars

Worker == \E n \in Names : WorkerCaseStart(n) \/ WorkerCaseBody(n) \/ WorkerStore(n)

Next ==
    \/ DiscoverStart
    \/ DiscoverCase
    \/ DiscoverComplete
    \/ SuiteStart
    \/ ForNext
    \/ RunCaseStart
    \/ RunCaseBody
    \/ Spawn
    \/ Recv
    \/ SuiteComplete
    \/ Worker

Spec == Init /\ [][Next]_vars

(* The same program over registries that hold a case whose destructor    *)
(* panics; no filter, so that discover drops no case, and no fail-fast,  *)
(* so that no case is dropped unrun.                                     *)
PanicNames == { n \in Names : DropPanics(n) }
PanicInputs ==
    { <<r, o>> \in (SUBSET (PanicNames \cup {<<1, 1>>})) \X SchedOpts :
        /\ Cardinality(r) <= MaxCases
        /\ r \cap PanicNames # {}
        /\ ~o.fail_fast }

SpecPanic == InitWith(PanicInputs) /\ [][Next]_vars

(***************************************************************************)
(* Harness::main from the raw arguments: parse, then the notifier, then    *)
(* discover and run as above.                                              *)
(***************************************************************************)
MainArgs ==
    { <<>>, <<"--list">>, <<"11">>, <<"--exact", "1">>, <<"--skip", "2", "1">>,
      <<"--test-threads=2">>, <<"--test-threads", "2">>, <<"11", "--test-threads=2">>,
      <<"--ignored">>, <<"--include-ignored">>, <<"-q">>, <<"--color=never">>,
      <<"--quiet", "--include-ignored">>,
      <<"-Zunstable-options", "--shuffle">>, <<"-Z", "unstable-options", "--shuffle-seed=1">>,
      <<"-Zunstable-options", "--format=json">>, <<"-Zunstable-options", "--format=junit">>,
      <<"-h">>, <<"--help", "--bogus">>, <<"--bogus", "--help">>,
      <<"--shuffle", "--help">>, <<"--help", "--ignored", "--include-ignored">>,
      <<"--bogus">>, <<"-x">>, <<"--=x">>, <<"--list=yes">>, <<"--", "--list">>,
      <<"--test-threads=0">>, <<"--test-threads">>, <<"--color=blue">>,
      <<"-Zunstable-options", "--format=xml">>,
      <<"--include-ignored", "--ignored">>, <<"--ignored", "11", "--include-ignored">>,
      <<"--shuffle">>, <<"--shuffle-seed=1">>, <<"--format=json">>,
      <<"--force-run-in-process">>, <<"--exclude-should-panic">> }

MainRegistries ==
    { {<<1>>}, {<<1>>, <<1, 1>>}, {<<1, 1>>, <<1, 2>>, <<2>>} }

InitMain ==
    /\ registry \in MainRegistries
    /\ cases \in Perms(registry)
    /\ opts = TestOpts_default
    /\ pc = "bin"
    /\ Fresh
    /\ \E args \in MainArgs : parser = Parser_new(<<"test">> \o args)
    /\ test_opts = TestOptsBuilder_new
    /\ ret = Returned("new", None)
    /\ stderr = <<>>
    /\ raw_type = "Vec"
    /\ rng = None
    /\ shuffle_i = 0

(* eprintln!("{}", err); std::process::exit(1) *)
ConfigError(msg) ==
    /\ pc' = "exit"
    /\ exitCode' = Some(EXIT_FAILURE)
    /\ stderr' = Append(stderr, msg)
    /\ UNCHANGED << raw_type, shuffleVars >>

harnessVars == << registry, cases, io_error, discoverVars, delivered, runVars >>

(* parse: let bin = parser.bin() *)
ParseBin ==
    /\ pc = "bin"
    /\ parser' = bin(parser).parser
    /\ pc' = IF bin(parser).panicked THEN "panicked" ELSE "parse"
    /\ UNCHANGED << opts, test_opts, ret, stderr, raw_type, shuffleVars, exitCode >>
    /\ UNCHANGED harnessVars

(* parse: one turn of `while let Some(arg) = parser.next()` *)
ParseArg ==
    /\ pc = "parse"
    /\ LET n == next(parser)
           arg == n.ret[1]
       IN /\ n.ret # None
          /\ \/ /\ arg \in {Short("h"), Long("help")}
                /\ parser' = n.parser
                /\ pc' = "exit"
                /\ exitCode' = Some(0)
                /\ UNCHANGED << test_opts, stderr, raw_type, shuffleVars >>
             \/ /\ arg \notin {Short("h"), Long("help")}
                /\ \E nightly \in BOOLEAN :
                     LET r == parse_next(test_opts, n.parser, arg, nightly)
                     IN /\ parser' = r.parser
                        /\ test_opts' = r.builder
                        /\ \/ /\ r.result = "Ok"
                              /\ UNCHANGED << pc, exitCode, stderr, raw_type, shuffleVars >>
                           \/ /\ r.result = "Err"
                              /\ ConfigError("invalid")
                           \/ /\ r.result = "Unhandled"
                              /\ ConfigError("unrecognized")
    /\ UNCHANGED << opts, ret >>
    /\ UNCHANGED harnessVars

(* parse: the arguments are exhausted; finish and the default worker count *)
ParseFinish ==
    /\ pc = "parse"
    /\ LET n == next(parser)
       IN /\ n.ret = None
          /\ parser' = n.parser
          /\ \E env \in Envs, supports_threads \in BOOLEAN,
                available_parallelism \in {None, Some(MaxThreads)} :
               LET f == finish(test_opts, env)
               IN \/ /\ f.ok
                     /\ opts' = [f.opts EXCEPT !.test_threads =
                                   IF ~supports_threads THEN None
                                   ELSE IF @ # None THEN @ ELSE available_parallelism]
                     /\ pc' = "notifier"
                     /\ UNCHANGED << exitCode, stderr, raw_type, shuffleVars >>
                  \/ /\ ~f.ok
                     /\ ConfigError("finish")
                     /\ UNCHANGED opts
    /\ UNCHANGED << test_opts, ret >>
    /\ UNCHANGED harnessVars

(* main: notifier(&opts); json and junit are features of the build *)
MakeNotifier ==
    /\ pc = "notifier"
    /\ \E features \in SUBSET {"Json", "Junit"} :
         \/ /\ opts.format \in {"Json", "Junit"} \ features
            /\ ConfigError("not supported")
         \/ /\ opts.format \notin {"Json", "Junit"} \ features
            /\ pc' = "discover"
            /\ UNCHANGED << exitCode, stderr, raw_type, shuffleVars >>
    /\ UNCHANGED << opts, parser, test_opts, ret >>
    /\ UNCHANGED harnessVars

NextMain ==
    \/ ParseBin
    \/ ParseArg
    \/ ParseFinish
    \/ MakeNotifier
    \/ Next

SpecMain == InitMain /\ [][NextMain]_vars

(***************************************************************************)
(* A caller of the parser alone, as the tests of lexarg are: any sequence  *)
(* of next() and flag_value() over any arguments.                          *)
(***************************************************************************)
LexWords ==
    {"--", "-", "", "-x", "--foo", "--bar=qux", "-a=b", "-fvalue", "-fa=b", "v",
     "-a@", "-@", "--@", "--a=@"}

RawArgs == UNION { [1..n -> LexWords] : n \in 0..MaxArgs }

InitLexarg ==
    /\ registry = {}
    /\ cases = <<>>
    /\ opts = TestOpts_default
    /\ pc = "lexarg"
    /\ Fresh
    /\ \E raw \in RawArgs : parser = Parser_new(raw)
    /\ test_opts = TestOptsBuilder_new
    /\ ret = Returned("new", None)
    /\ stderr = <<>>
    /\ raw_type = "array"
    /\ rng = None
    /\ shuffle_i = 0

CallNext ==
    /\ pc = "lexarg"
    /\ parser' = next(parser).parser
    /\ ret' = Returned("next", next(parser).ret)
    /\ pc' = IF next(parser).panicked THEN "panicked" ELSE pc
    /\ UNCHANGED << opts, exitCode, test_opts, stderr, raw_type, shuffleVars >>
    /\ UNCHANGED harnessVars

CallFlagValue ==
    /\ pc = "lexarg"
    /\ parser' = flag_value(parser).parser
    /\ ret' = Returned("flag_value", flag_value(parser).ret)
    /\ pc' = IF flag_value(parser).panicked THEN "panicked" ELSE pc
    /\ UNCHANGED << opts, exitCode, test_opts, stderr, raw_type, shuffleVars >>
    /\ UNCHANGED harnessVars

(* RawArgs::len and RawArgs::is_empty of [S; C], &[S] and Vec<S> *)
RawTypes == {"array", "slice", "Vec"}
len(type, raw) == Len(raw)
is_empty(type, raw) == IF type = "array" THEN Len(raw) # 0 ELSE Len(raw) = 0

(* Parser::bin *)
CallBin ==
    /\ pc = "lexarg"
    /\ parser' = bin(parser).parser
    /\ ret' = Returned("bin", bin(parser).ret)
    /\ pc' = IF bin(parser).panicked THEN "panicked" ELSE pc
    /\ UNCHANGED << opts, exitCode, test_opts, stderr, raw_type, shuffleVars >>
    /\ UNCHANGED harnessVars

NextLexarg ==
    \/ CallNext
    \/ CallFlagValue

SpecLexarg == InitLexarg /\ [][NextLexarg]_vars

(* The same caller with Parser::bin among its calls. *)
NextBin ==
    \/ CallNext
    \/ CallFlagValue
    \/ CallBin

SpecBin == InitLexarg /\ [][NextBin]_vars

(* A holder of raw arguments of any of the three types, asked for its *)
(* length, whether it is empty, and its elements.                     *)
RawWords == {"", "--", "v"}
InitRawArgs ==
    /\ registry = {}
    /\ cases = <<>>
    /\ opts = TestOpts_default
    /\ pc = "rawargs"
    /\ Fresh
    /\ \E n \in 0..MaxArgs : \E raw \in [1..n -> RawWords] : parser = Parser_new(raw)
    /\ test_opts = TestOptsBuilder_new
    /\ ret = Returned("new", None)
    /\ stderr = <<>>
    /\ raw_type \in RawTypes
    /\ rng = None
    /\ shuffle_i = 0

CallLen ==
    /\ pc = "rawargs"
    /\ ret' = Returned("len", Some(len(raw_type, parser.raw)))
    /\ UNCHANGED << opts, pc, exitCode, parser, test_opts, stderr, raw_type, shuffleVars >>
    /\ UNCHANGED harnessVars

CallIsEmpty ==
    /\ pc = "rawargs"
    /\ ret' = Returned("is_empty", Some(is_empty(raw_type, parser.raw)))
    /\ UNCHANGED << opts, pc, exitCode, parser, test_opts, stderr, raw_type, shuffleVars >>
    /\ UNCHANGED harnessVars

CallGet ==
    /\ pc = "rawargs"
    /\ \E index \in 0..MaxArgs : ret' = Returned("get", Get(parser.raw, index))
    /\ UNCHANGED << opts, pc, exitCode, parser, test_opts, stderr, raw_type, shuffleVars >>
    /\ UNCHANGED harnessVars

NextRawArgs ==
    \/ CallLen
    \/ CallIsEmpty
    \/ CallGet

SpecRawArgs == InitRawArgs /\ [][NextRawArgs]_vars

(***************************************************************************)
(* shuffle on its own: shuffle_tests over every list of up to MaxCases     *)
(* cases and every seed, one randomize_first at a time.  cases is the      *)
(* slice, registry the cases that went in; shuffle_i counts from 0 as the  *)
(* loop does.                                                              *)
(***************************************************************************)
ShuffleSeeds == 0..(HashMod - 1)

Rng_new(shuffle_seed, extra) == [state |-> shuffle_seed, extra |-> extra]

InitShuffle ==
    /\ registry \in { S \in SUBSET QuietNames : Cardinality(S) <= MaxCases }
    /\ cases \in Perms(registry)
    /\ opts = TestOpts_default
    /\ pc = "shuffle"
    /\ retain_cases = <<>>
    /\ seed \in { Some(shuffle_seed) : shuffle_seed \in ShuffleSeeds }
    /\ delivered = <<>>
    /\ threaded = None
    /\ run_ignored = FALSE
    /\ success = TRUE
    /\ sync_success = TRUE
    /\ pending = 0
    /\ running_tests = {}
    /\ remaining = <<>>
    /\ chan = <<>>
    /\ wpc = [n \in Names |-> "idle"]
    /\ cur = None
    /\ runs = [n \in Names |-> 0]
    /\ launched = <<>>
    /\ io_error = FALSE
    /\ exitCode = None
    /\ parser = Parser_new(<<>>)
    /\ test_opts = TestOptsBuilder_new
    /\ ret = Returned("new", None)
    /\ stderr = <<>>
    /\ raw_type = "Vec"
    /\ rng = Rng_new(seed[1], calculate_hash_names(cases))
    /\ shuffle_i = 0

(* randomize_first(rng, &mut slice[i..]): the assertion, rand_range over   *)
(* 0..slice.len(), and the swap, whose index is checked against the slice. *)
randomize_first ==
    /\ pc = "shuffle"
    /\ shuffle_i < Len(cases)
    /\ LET slice_len == Len(cases) - shuffle_i
           r == rand_u64(rng.state, rng.extra)
       IN IF slice_len = 0
          THEN /\ pc' = "panicked"
               /\ UNCHANGED << cases, rng, shuffle_i >>
          ELSE /\ rng' = [rng EXCEPT !.state = r]
               /\ IF rand_range(r, slice_len) >= slice_len
                  THEN /\ pc' = "panicked"
                       /\ UNCHANGED << cases, shuffle_i >>
                  ELSE /\ cases' = Swap(cases, shuffle_i + 1,
                                        shuffle_i + 1 + rand_range(r, slice_len))
                       /\ shuffle_i' = shuffle_i + 1
                       /\ pc' = pc
    /\ UNCHANGED << opts, registry, exitCode, parser, test_opts, ret, stderr, raw_type,
                    io_error, discoverVars, delivered, runVars >>

(* The loop of shuffle is over: shuffle_tests returns. *)
ShuffleReturns ==
    /\ pc = "shuffle"
    /\ shuffle_i >= Len(cases)
    /\ pc' = "shuffled"
    /\ UNCHANGED << opts, registry, cases, exitCode, cliVars, io_error, discoverVars,
                    delivered, runVars >>

NextShuffle ==
    \/ randomize_first
    \/ ShuffleReturns

SpecShuffle == InitShuffle /\ [][NextShuffle]_vars



(***************************************************************************)
(* What the properties read off the delivered events.                      *)
(***************************************************************************)
Range(q) == { q[i] : i \in 1..Len(q) }

Positions(type, name) ==
    { i \in 1..Len(delivered) : delivered[i].type = type /\ delivered[i].name = name }

PositionsOf(type) == { i \in 1..Len(delivered) : delivered[i].type = type }

Count(type, name) == Cardinality(Positions(type, name))

Delivered(type) == PositionsOf(type) # {}

(* run returned Ok: SuiteComplete was delivered. *)
RunFinished == Delivered("SuiteComplete")

(* The selected cases: what discover left in cases. *)
Discovered == pc \notin {"discover", "discover_case"}
Selected == Range(cases)

(* The names of the events of a type, in the order delivered. *)
RECURSIVE NamesOf(_, _)
NamesOf(type, q) ==
    IF q = <<>> THEN <<>>
    ELSE (IF Head(q).type = type THEN <<Head(q).name>> ELSE <<>>) \o NamesOf(type, Tail(q))

(***************************************************************************)
(* C1.  With fail-fast off, when the run finishes (SuiteComplete was       *)
(* delivered, so no notify failed), every selected case has exactly one    *)
(* CaseStart and exactly one CaseComplete among the delivered events, the  *)
(* CaseStart first; in sequential and in concurrent mode.                  *)
(***************************************************************************)
C1_OnePairPerSelectedCase ==
    (RunFinished /\ ~opts.fail_fast) =>
        \A n \in Selected :
            /\ Count("CaseStart", n) = 1
            /\ Count("CaseComplete", n) = 1
            /\ \A i \in Positions("CaseStart", n), j \in Positions("CaseComplete", n) : i < j

C1_Witness ==
    /\ RunFinished
    /\ ~opts.fail_fast
    /\ IsMultithreaded(opts)
    /\ Len(cases) >= 3

(* In concurrent mode, before the process exits: a case that was taken *)
(* from the queue and has no worker thread was run by the coordinator   *)
(* after a WouldBlock; a case with a worker thread whose CaseComplete   *)
(* was not received is in flight.                                       *)
InLoop == IsMultithreaded(opts) /\ threaded # None /\ pc # "exit"
FellBack(n) == InLoop /\ n \in Range(launched) /\ wpc[n] = "idle"
InFlight == { n \in Names : wpc[n] # "idle" /\ Count("CaseComplete", n) = 0 }
InChannel(type, name) ==
    Cardinality({ i \in 1..Len(chan) : chan[i].type = type /\ chan[i].name = name })

WaitsInRecv == pc = "loop" /\ ~CanSpawn(pending, Threads(opts), remaining)

C3_NeverWaitsWithoutWorker ==
    ~(WaitsInRecv /\ chan = <<>> /\ \A n \in Names : wpc[n] \in {"idle", "finished"})

(***************************************************************************)
(* C4.  In concurrent mode a case whose spawn failed with WouldBlock is    *)
(* run by the coordinator: once run_case has returned, its body was        *)
(* invoked once, its CaseStart and CaseComplete were delivered once each   *)
(* and a failure is stored in the shared flag; when the loop is left the   *)
(* failure is in success, and without fail-fast the queue is empty and     *)
(* every selected case has its CaseComplete.                               *)
(***************************************************************************)
C4_FallbackRunsTheCase ==
    \A n \in Names :
        FellBack(n) =>
            /\ runs[n] <= 1
            /\ Count("CaseStart", n) <= 1
            /\ cur # Some(n) =>
                 /\ runs[n] = 1
                 /\ Count("CaseStart", n) = 1
                 /\ Count("CaseComplete", n) = 1
                 /\ InChannel("CaseStart", n) + InChannel("CaseComplete", n) = 0
                 /\ ~CaseSuccess(Outcome(n, run_ignored)) => ~sync_success
            /\ pc = "suite_complete" =>
                 /\ ~CaseSuccess(Outcome(n, run_ignored)) => ~success
                 /\ ~opts.fail_fast =>
                      /\ remaining = <<>>
                      /\ \A m \in Selected : Count("CaseComplete", m) = 1

C4_Witness ==
    /\ pc = "suite_complete"
    /\ ~opts.fail_fast
    /\ Len(cases) >= 3
    /\ \E n \in Names : FellBack(n) /\ launched[1] = n /\ ~CaseSuccess(Outcome(n, run_ignored))
    /\ \E n \in Names : wpc[n] = "finished"

(***************************************************************************)
(* C5.  As claimed: in concurrent mode the CaseStart of a case is          *)
(* delivered when the case is launched, so before any later case is        *)
(* launched, and the CaseStarts are delivered in the order of launch.      *)
(***************************************************************************)
IsPrefix(a, b) == Len(a) <= Len(b) /\ SubSeq(b, 1, Len(a)) = a

C5_AsClaimed ==
    InLoop =>
        /\ \A i \in 1..(Len(launched) - 1) : Count("CaseStart", launched[i]) = 1
        /\ IsPrefix(NamesOf("CaseStart", delivered), launched)

(***************************************************************************)
(* C5, amended.  In concurrent mode the worker sends the CaseStart of its  *)
(* case over the channel: a launched worker that has not taken its first   *)
(* step has no CaseStart anywhere, afterwards exactly one, in the channel  *)
(* or delivered.  A CaseStart is delivered only for a case already taken   *)
(* from the queue, and before the CaseComplete of that case; only in       *)
(* sequential mode are the CaseStarts delivered in the order of launch.    *)
(***************************************************************************)
C5_WorkerSendsCaseStart ==
    /\ \A i \in PositionsOf("CaseStart") : delivered[i].name \in Range(launched)
    /\ \A j \in PositionsOf("CaseComplete") :
         \E i \in 1..(j - 1) : delivered[i] = EvCaseStart(delivered[j].name)
    /\ \A n \in Names :
         /\ (InLoop /\ wpc[n] = "start") =>
              Count("CaseStart", n) + InChannel("CaseStart", n) = 0
         /\ (InLoop /\ wpc[n] \in {"body", "store", "finished"}) =>
              Count("CaseStart", n) + InChannel("CaseStart", n) = 1
    /\ (threaded = Some(FALSE)) => IsPrefix(NamesOf("CaseStart", delivered), launched)

C5_Witness ==
    /\ InLoop
    /\ Len(launched) >= 2
    /\ wpc[launched[1]] # "idle"
    /\ Count("CaseStart", launched[1]) = 0
    /\ Count("CaseStart", launched[2]) = 1

(***************************************************************************)
(* C6.  In concurrent mode the workers in flight (spawned, CaseComplete    *)
(* not yet received) are never more than the worker count, pending counts  *)
(* them, and the cases are taken from the front of the queue: what was     *)
(* launched followed by what remains is the ordered selected list.         *)
(***************************************************************************)
C6_BoundedPoolFifoQueue ==
    (threaded # None /\ pc # "exit") =>
        LET inflight == Cardinality(InFlight)
        IN /\ inflight <= Threads(opts)
           /\ pending = inflight
           /\ launched \o remaining = cases

C6_Witness ==
    /\ InLoop
    /\ Cardinality(InFlight) = Threads(opts)
    /\ remaining # <<>>

(***************************************************************************)
(* C7.  Every CaseStart and CaseComplete delivered has the SuiteStart      *)
(* before it and no SuiteComplete before it; SuiteStart and SuiteComplete  *)
(* are delivered at most once, and nothing follows SuiteComplete.          *)
(***************************************************************************)
C7_SuiteBracketsCases ==
    LET starts == PositionsOf("SuiteStart")
        completes == PositionsOf("SuiteComplete")
    IN /\ Cardinality(starts) <= 1
       /\ Cardinality(completes) <= 1
       /\ \A k \in completes : k = Len(delivered)
       /\ \A i \in 1..Len(delivered) :
            delivered[i].type \in {"CaseStart", "CaseComplete"} =>
                /\ \E j \in starts : j < i
                /\ \A k \in completes : i < k

C7_Witness ==
    /\ RunFinished
    /\ opts.fail_fast
    /\ IsMultithreaded(opts)
    /\ \E n \in Range(launched) : Count("CaseStart", n) = 1 /\ Count("CaseComplete", n) = 0

(***************************************************************************)
(* C8, the part that holds.  A case whose body panics is reported Failed,   *)
(* with the message                                                        *)
(* "test panicked: <payload>" for a string payload and "test panicked"     *)
(* otherwise; every CaseComplete delivered carries the outcome of its own  *)
(* case; when the run finishes with a panicked case reported the exit code *)
(* is 101, and without fail-fast every selected case was run once and has  *)
(* its CaseComplete.                                                       *)
(***************************************************************************)
Panics(n) ==
    /\ Body(n).end \in {"panic_str", "panic_any"}
    /\ Body(n).pre # "none" => run_ignored

OwnOutcome(n) ==
    IF Body(n).pre # "none" /\ ~run_ignored
    THEN [status |-> Some("Ignored"),
          message |-> IF Body(n).pre = "ignore_for" THEN Some("fails") ELSE None]
    ELSE CASE Body(n).end = "pass"      -> [status |-> None, message |-> None]
           [] Body(n).end = "fail"      -> [status |-> Some("Failed"), message |-> Some("x")]
           [] Body(n).end = "panic_str" ->
                [status |-> Some("Failed"), message |-> Some("test panicked: uh oh")]
           [] Body(n).end = "panic_any" ->
                [status |-> Some("Failed"), message |-> Some("test panicked")]

PanicReported ==
    \E i \in PositionsOf("CaseComplete") : Panics(delivered[i].name)

C8_PanicIsOneFailedCase ==
    /\ \A i \in PositionsOf("CaseComplete") :
         /\ delivered[i].status = OwnOutcome(delivered[i].name).status
         /\ delivered[i].message = OwnOutcome(delivered[i].name).message
    /\ (RunFinished /\ PanicReported) =>
         /\ exitCode = Some(101)
         /\ ~opts.fail_fast =>
              \A m \in Selected : runs[m] = 1 /\ Count("CaseComplete", m) = 1

C8_Witness ==
    /\ RunFinished
    /\ IsMultithreaded(opts)
    /\ \E i, j, k \in PositionsOf("CaseComplete") :
         /\ delivered[i].message = Some("test panicked: uh oh")
         /\ delivered[j].message = Some("test panicked")
         /\ i < k
         /\ delivered[k].status = None

(***************************************************************************)
(* C8, as claimed: once the CaseComplete of a panicked case has been       *)
(* delivered the run still ends with SuiteComplete, so the coordinator is  *)
(* never left in rx.recv() with the queue empty, no worker pending and no  *)
(* message in the channel.                                                 *)
(***************************************************************************)
C8_AsClaimed ==
    PanicReported => ~(pc = "loop" /\ remaining = <<>> /\ pending = 0 /\ chan = <<>>)

(***************************************************************************)
(* C9.  In sequential mode with fail_fast the run stops after the first    *)
(* case that fails: at most one Failed CaseComplete is delivered, it has   *)
(* its CaseStart before it and no CaseStart behind it, and SuiteComplete   *)
(* is still delivered unless the notifier failed; while no case has failed *)
(* the run goes on, so a finished run without a failure has run every      *)
(* selected case.                                                          *)
(***************************************************************************)
FailedPositions ==
    { i \in PositionsOf("CaseComplete") : delivered[i].status = Some("Failed") }

C9_SequentialFailFast ==
    (threaded = Some(FALSE) /\ opts.fail_fast) =>
        /\ Cardinality(FailedPositions) <= 1
        /\ \A i \in FailedPositions :
             /\ i > 1
             /\ delivered[i - 1] = EvCaseStart(delivered[i].name)
             /\ \A j \in PositionsOf("CaseStart") : j < i
             /\ pc \in {"suite_complete", "exit"}
        /\ (pc = "exit" /\ ~io_error) => RunFinished
        /\ (RunFinished /\ FailedPositions = {}) =>
             NamesOf("CaseComplete", delivered) = cases
        /\ (pc = "suite_complete" /\ FailedPositions = {}) => remaining = <<>>

C9_Witness ==
    /\ RunFinished
    /\ threaded = Some(FALSE)
    /\ opts.fail_fast
    /\ Len(cases) >= 3
    /\ Len(NamesOf("CaseComplete", delivered)) = 2
    /\ FailedPositions # {}

(***************************************************************************)
(* C10.  Discovery delivers DiscoverStart first, then one DiscoverCase for *)
(* every registered case, selected or not, with the result of the          *)
(* selection rule as its run flag, then DiscoverComplete; the cases kept   *)
(* for execution are those reported with run = TRUE, in the order          *)
(* reported.                                                               *)
(***************************************************************************)
RECURSIVE RunTrueNames(_)
RunTrueNames(q) ==
    IF q = <<>> THEN <<>>
    ELSE (IF Head(q).type = "DiscoverCase" /\ Head(q).run THEN <<Head(q).name>> ELSE <<>>)
         \o RunTrueNames(Tail(q))

RuleSelects(o, n) ==
    /\ o.filters = <<>> \/ \E f \in Range(o.filters) : matches_filter(o, n, f)
    /\ ~\E p \in Range(o.skip) : matches_filter(o, n, p)

C10_DiscoveryReportsEveryCase ==
    LET reported == PositionsOf("DiscoverCase")
        completes == PositionsOf("DiscoverComplete")
        last == Cardinality(registry) + 1
    IN /\ \A i \in reported :
            /\ delivered[1] = EvDiscoverStart
            /\ i \in 2..last
            /\ delivered[i].name \in registry
            /\ delivered[i].run = RuleSelects(opts, delivered[i].name)
            /\ \A j \in reported : delivered[j].name = delivered[i].name => j = i
       /\ \A k \in completes :
            /\ k = last + 1
            /\ delivered[1] = EvDiscoverStart
            /\ reported = 2..last
            /\ cases = RunTrueNames(SubSeq(delivered, 2, last))

C10_Witness ==
    /\ Delivered("DiscoverComplete")
    /\ Len(cases) = 2
    /\ Cardinality(registry) = 3
    /\ opts.shuffle_seed # None
    /\ cases # SortByName(cases)

(***************************************************************************)
(* C11.  A case is selected iff (the filter list is empty or some filter   *)
(* matches its name) and no skip pattern matches it, where a pattern       *)
(* matches by equality under --exact and by substring otherwise, for       *)
(* filters and skips alike: the flag pushed for every case, and the cases  *)
(* discover keeps, are those the rule selects.                             *)
(***************************************************************************)
IsSubstring(pat, name) ==
    \E i \in 1..(Len(name) + 1) : \E j \in (i - 1)..Len(name) : SubSeq(name, i, j) = pat

PatternMatches(exact, pat, name) == IF exact THEN name = pat ELSE IsSubstring(pat, name)

SelectionRule(n) ==
    /\ \/ opts.filters = <<>>
       \/ \E f \in Range(opts.filters) : PatternMatches(opts.filter_exact, f, n)
    /\ ~\E p \in Range(opts.skip) : PatternMatches(opts.filter_exact, p, n)

C11_SelectedIffRule ==
    /\ pc = "discover_case" =>
         \A i \in 1..Len(retain_cases) : retain_cases[i] = SelectionRule(cases[i])
    /\ (Discovered /\ ~io_error) => Selected = { n \in registry : SelectionRule(n) }

C11_Witness ==
    /\ Discovered
    /\ ~io_error
    /\ opts.filter_exact
    /\ Len(opts.filters) = 2
    /\ opts.skip # <<>>
    /\ Cardinality(registry) = 3
    /\ Cardinality(Selected) = 1
    /\ \E n \in registry \ Selected :
         /\ \E f \in Range(opts.filters) : IsSubstring(f, n) /\ f # n
         /\ ~\E p \in Range(opts.skip) : IsSubstring(p, n)

(***************************************************************************)
(* C12.  A run that ends without an I/O error exits with 0 when no case    *)
(* failed (an ignored case is no failure) and with 101 when a case failed; *)
(* under --list it exits with 0 whatever the cases would do.               *)
(***************************************************************************)
FailedBodies == { n \in Names : runs[n] > 0 /\ OwnOutcome(n).status = Some("Failed") }

C13_ListRunsNothing ==
    opts.list =>
        /\ \A n \in Names : runs[n] = 0 /\ wpc[n] = "idle"
        /\ launched = <<>>
        /\ \A i \in 1..Len(delivered) :
             delivered[i].type \in {"DiscoverStart", "DiscoverCase", "DiscoverComplete"}
        /\ (pc = "exit" /\ ~io_error) =>
             /\ Len(delivered) = Cardinality(registry) + 2
             /\ delivered[1].type = "DiscoverStart"
             /\ delivered[Len(delivered)].type = "DiscoverComplete"
             /\ { delivered[i].name : i \in 2..(Len(delivered) - 1) } = registry
             /\ \A i \in 2..(Len(delivered) - 1) : delivered[i].type = "DiscoverCase"

C13_Witness ==
    /\ opts.list
    /\ pc = "exit"
    /\ ~io_error
    /\ Cardinality(registry) = 3
    /\ Cardinality(Selected) = 2
    /\ \E n \in Selected : OwnOutcome(n).status = Some("Failed")

(***************************************************************************)
(* C14.  DiscoverStart, every DiscoverCase and DiscoverComplete are        *)
(* delivered, in that order, before SuiteStart and before any case body is *)
(* invoked or any case is taken for a worker; no discovery event follows   *)
(* an event of the run.                                                    *)
(***************************************************************************)
DiscoveryTypes == {"DiscoverStart", "DiscoverCase", "DiscoverComplete"}

ExecutionBegun ==
    \/ launched # <<>>
    \/ \E n \in Names : runs[n] > 0 \/ wpc[n] # "idle"
    \/ \E i \in 1..Len(delivered) : delivered[i].type \notin DiscoveryTypes

C14_DiscoveryBeforeExecution ==
    /\ \A i \in 1..Len(delivered) :
         /\ (delivered[i].type \in DiscoveryTypes) = (i <= Cardinality(registry) + 2)
         /\ (delivered[i].type = "DiscoverStart") = (i = 1)
         /\ (delivered[i].type = "DiscoverComplete") = (i = Cardinality(registry) + 2)
    /\ ExecutionBegun =>
         /\ Len(delivered) >= Cardinality(registry) + 2
         /\ delivered[Cardinality(registry) + 2].type = "DiscoverComplete"
         /\ retain_cases # <<>> => Len(retain_cases) = Cardinality(registry)

C14_Witness ==
    /\ IsMultithreaded(opts)
    /\ Cardinality(registry) = 3
    /\ \E n \in Names : wpc[n] = "start"
    /\ \E n \in Names : wpc[n] = "finished"
    /\ delivered[Len(delivered)].type = "CaseComplete"

(***************************************************************************)
(* C15.  Every selected case is taken from the queue at most once (once    *)
(* when a run without fail-fast has finished), its body is invoked at most *)
(* once, and by one executor: a case the coordinator runs has no worker,   *)
(* and only a case taken from the queue is run.                            *)
(***************************************************************************)
NoDuplicates(q) == \A i, j \in 1..Len(q) : q[i] = q[j] => i = j

C15_OneExecutorPerCase ==
    /\ NoDuplicates(launched)
    /\ \A n \in Names :
         /\ runs[n] <= 1
         /\ (runs[n] = 1 \/ wpc[n] # "idle" \/ cur = Some(n)) =>
              n \in Range(launched) /\ n \in Selected
         /\ cur = Some(n) => wpc[n] = "idle" /\ n \notin running_tests
         /\ (n \in running_tests /\ pc # "exit") => wpc[n] # "idle"
    /\ (RunFinished /\ ~opts.fail_fast) =>
         /\ launched = cases
         /\ \A n \in Selected : runs[n] = 1

C15_Witness ==
    /\ RunFinished
    /\ ~opts.fail_fast
    /\ opts.test_threads = Some(2)
    /\ Len(launched) = 3
    /\ \E i \in PositionsOf("CaseStart") :
         /\ i < Len(delivered)
         /\ delivered[i + 1].type = "CaseStart"

(***************************************************************************)
(* C16.  Only the coordinating thread calls the notifier: a step that      *)
(* delivers an event or gives the threaded hint moves no worker, a step of *)
(* a worker delivers nothing and only adds to the channel, and in the      *)
(* concurrent loop the event delivered is the one at the head of the       *)
(* channel, so events are delivered in the order received.                 *)
(***************************************************************************)
WorkerRunning(n) == wpc[n] \in {"start", "body", "store"}

C16_OnlyCoordinatorNotifies ==
    [][ /\ (delivered' # delivered \/ threaded' # threaded) =>
             /\ Len(delivered') <= Len(delivered) + 1
             /\ SubSeq(delivered', 1, Len(delivered)) = delivered
             /\ \A n \in Names : WorkerRunning(n) => (wpc'[n] = wpc[n] \/ pc' = "exit")
             /\ chan' # chan => (chan' = Tail(chan) \/ pc' = "exit")
        /\ (pc' = pc /\ \E n \in Names : WorkerRunning(n) /\ wpc'[n] # wpc[n]) =>
             /\ delivered' = delivered
             /\ threaded' = threaded
             /\ IsPrefix(chan, chan')
        /\ (pc = "loop" /\ delivered' # delivered) =>
             /\ chan # <<>>
             /\ delivered'[Len(delivered')].type = Head(chan).type
             /\ delivered'[Len(delivered')].name = Head(chan).name
             /\ chan' = Tail(chan)
      ]_vars

C16_Witness ==
    /\ InLoop
    /\ Len(chan) >= 2
    /\ chan[1].name # chan[2].name
    /\ \E i \in PositionsOf("CaseStart") : delivered[i].name = chan[1].name

(***************************************************************************)
(* notify/summary.rs: the Summary the run renderers keep, fed with every   *)
(* event they are given.  failures, a BTreeMap from name to message, is a  *)
(* set of pairs with one pair for a name.                                  *)
(***************************************************************************)
Summary_default ==
    [seed |-> None, failures |-> {}, num_run |-> 0, num_filtered_out |-> 0,
     num_passed |-> 0, num_failed |-> 0, num_ignored |-> 0]

(* Fault: a summary that books an ignored case as passed. *)
Summary_notify_ignored_as_passed(s, event) ==
    CASE event.type = "DiscoverCase" ->
           IF event.run THEN [s EXCEPT !.num_run = @ + 1]
           ELSE [s EXCEPT !.num_filtered_out = @ + 1]
      [] event.type = "DiscoverComplete" -> [s EXCEPT !.seed = event.seed]
      [] event.type = "CaseComplete" ->
           IF event.status = Some("Failed")
           THEN [s EXCEPT !.num_failed = @ + 1,
                          !.failures = { f \in @ : f[1] # event.name }
                                       \cup { <<event.name, event.message>> }]
           ELSE [s EXCEPT !.num_passed = @ + 1]
      [] OTHER -> s

Summary_notify(s, event) ==
    CASE event.type = "DiscoverCase" ->
           IF event.run THEN [s EXCEPT !.num_run = @ + 1]
           ELSE [s EXCEPT !.num_filtered_out = @ + 1]
      [] event.type = "DiscoverComplete" -> [s EXCEPT !.seed = event.seed]
      [] event.type = "CaseComplete" ->
           IF event.status = Some("Ignored") THEN [s EXCEPT !.num_ignored = @ + 1]
           ELSE IF event.status = Some("Failed")
           THEN [s EXCEPT !.num_failed = @ + 1,
                          !.failures = { f \in @ : f[1] # event.name }
                                       \cup { <<event.name, event.message>> }]
           ELSE [s EXCEPT !.num_passed = @ + 1]
      [] OTHER -> s

RECURSIVE SummaryAfter(_, _)
SummaryAfter(s, events) ==
    IF events = <<>> THEN s
    ELSE SummaryAfter(Summary_notify(s, Head(events)), Tail(events))

has_failed(s) == 0 < s.num_failed

(***************************************************************************)
(* C17.  State::ignore and State::ignore_for let the case go on iff the    *)
(* run-ignored mode is Yes or Only; otherwise the case ends Ignored, with  *)
(* the reason of ignore_for as message and none for ignore.  An ignored    *)
(* case is counted as ignored, not as failed, and a run whose cases all    *)
(* pass or are ignored exits with 0.                                       *)
(***************************************************************************)
Ignoring(n) == Body(n).pre \in {"ignore", "ignore_for"}

C17_IgnoreSignal ==
    /\ threaded # None => run_ignored = (opts.run_ignored \in {"Yes", "Only"})
    /\ \A i \in PositionsOf("CaseComplete") :
         LET n == delivered[i].name
         IN Ignoring(n) =>
              IF opts.run_ignored \in {"Yes", "Only"}
              THEN /\ delivered[i].status # Some("Ignored")
                   /\ delivered[i].status = EndOutcome(Body(n).end).status
              ELSE /\ delivered[i].status = Some("Ignored")
                   /\ delivered[i].message =
                        (IF Body(n).pre = "ignore_for" THEN Some("fails") ELSE None)
    /\ RunFinished =>
         LET s == SummaryAfter(Summary_default, delivered)
             ignored == { i \in PositionsOf("CaseComplete") :
                            delivered[i].status = Some("Ignored") }
         IN /\ s.num_ignored = Cardinality(ignored)
            /\ \A i \in ignored : \A f \in s.failures : f[1] # delivered[i].name
            /\ s.num_passed + s.num_failed + s.num_ignored
                 = Cardinality(PositionsOf("CaseComplete"))
            /\ (pc = "exit" /\ ~has_failed(s) /\ ~opts.fail_fast) => exitCode = Some(0)

C17_Witness ==
    /\ RunFinished
    /\ pc = "exit"
    /\ exitCode = Some(0)
    /\ \E i, j \in PositionsOf("CaseComplete") :
         /\ delivered[i].status = Some("Ignored") /\ delivered[i].message = None
         /\ delivered[j].status = Some("Ignored") /\ delivered[j].message = Some("fails")
    /\ SummaryAfter(Summary_default, delivered).num_ignored = 2
    /\ SummaryAfter(Summary_default, delivered).num_passed = 1

(***************************************************************************)
(* C18.  Shuffling is deterministic: with a seed in effect the order of    *)
(* the cases behind the shuffle is the shuffle, by that seed, of the       *)
(* sorted names, whatever the order in which the cases were registered;    *)
(* it is a function of the seed and the set of names.                      *)
(***************************************************************************)
C18_ShuffleDeterministic ==
    (pc = "discover_case" /\ seed # None) =>
        /\ Range(cases) = registry
        /\ Len(cases) = Cardinality(registry)
        /\ \A p \in Perms(registry) : cases = shuffle_tests(seed[1], SortByName(p))

C18_Witness ==
    /\ pc = "discover_case"
    /\ seed = Some(2)
    /\ Cardinality(registry) = 3
    /\ cases # SortByName(cases)
    /\ cases # shuffle_tests(1, SortByName(cases))

(***************************************************************************)
(* C19.  The effective seed is the explicit --shuffle-seed whenever one is *)
(* given, with or without --shuffle; else, under --shuffle, a seed taken   *)
(* from the clock; else there is none.  The list is shuffled exactly when  *)
(* there is an effective seed, by that seed, and DiscoverComplete carries  *)
(* it.                                                                     *)
(***************************************************************************)
EffectiveSeeds ==
    IF opts.shuffle_seed # None THEN {opts.shuffle_seed}
    ELSE IF opts.shuffle THEN { Some(t) : t \in TimeSeeds }
    ELSE {None}

C19_EffectiveSeed ==
    /\ pc = "discover" => seed = None
    /\ pc # "discover" /\ Delivered("DiscoverStart") => seed \in EffectiveSeeds
    /\ pc = "discover_case" =>
         cases = IF seed = None THEN SortByName(cases)
                 ELSE shuffle_tests(seed[1], SortByName(cases))
    /\ \A i \in PositionsOf("DiscoverComplete") :
         /\ delivered[i].seed = seed
         /\ delivered[i].seed \in EffectiveSeeds
         /\ SummaryAfter(Summary_default, SubSeq(delivered, 1, i)).seed = seed

C19_Witness ==
    /\ Delivered("DiscoverComplete")
    /\ ~opts.shuffle
    /\ opts.shuffle_seed = Some(2)
    /\ seed = Some(2)
    /\ Cardinality(registry) = 3
    /\ Len(cases) = 3
    /\ cases # SortByName(cases)

(***************************************************************************)
(* C20.  As claimed: selection comes before the shuffle, so the cases kept *)
(* are the shuffle, by the seed, of the selected cases.                    *)
(***************************************************************************)
C20_AsClaimed ==
    (Discovered /\ ~io_error /\ seed # None) =>
        cases = shuffle_tests(seed[1], SortByName(cases))

(***************************************************************************)
(* C20, amended.  discover sorts and shuffles the whole registry first and *)
(* selects afterwards, once per case: the DiscoverCase events come in the  *)
(* shuffled order of all registered cases, and the cases kept are the      *)
(* selected ones in the order the shuffle of the whole registry gave them. *)
(***************************************************************************)
RECURSIVE SortedNames(_)
SortedNames(S) ==
    IF S = {} THEN <<>>
    ELSE LET least == CHOOSE x \in S : \A y \in S \ {x} : StrLess(x, y)
         IN <<least>> \o SortedNames(S \ {least})

RegistryOrder ==
    IF seed = None THEN SortedNames(registry)
    ELSE shuffle_tests(seed[1], SortedNames(registry))

RECURSIVE KeepSelected(_)
KeepSelected(q) ==
    IF q = <<>> THEN <<>>
    ELSE (IF SelectionRule(Head(q)) THEN <<Head(q)>> ELSE <<>>) \o KeepSelected(Tail(q))

C20_ShuffleBeforeSelection ==
    /\ pc = "discover_case" =>
         /\ cases = RegistryOrder
         /\ Len(retain_cases) <= Len(cases)
         /\ NamesOf("DiscoverCase", delivered) = SubSeq(cases, 1, Len(retain_cases))
    /\ (Discovered /\ ~io_error) =>
         /\ Len(retain_cases) = Cardinality(registry)
         /\ NamesOf("DiscoverCase", SubSeq(delivered, 1, Cardinality(registry) + 1))
              = RegistryOrder
         /\ cases = KeepSelected(RegistryOrder)

C20_Witness ==
    /\ Discovered
    /\ ~io_error
    /\ seed # None
    /\ Len(cases) = 2
    /\ Cardinality(registry) = 3
    /\ cases # shuffle_tests(seed[1], SortByName(cases))
    /\ cases # SortByName(cases)

(***************************************************************************)
(* C21.  With no seed in effect the DiscoverCase events come in ascending  *)
(* name order, whatever the order of registration, and so are the cases    *)
(* kept.  In sequential mode the CaseStart and CaseComplete events follow  *)
(* the order of the DiscoverCase events with run = TRUE (seed or not): in  *)
(* ascending name order when there is no seed.                             *)
(***************************************************************************)
Ascending(q) == \A i, j \in 1..Len(q) : i < j => StrLess(q[i], q[j])

C21_NameOrder ==
    /\ (seed = None /\ delivered # <<>>) =>
         /\ \A i, j \in PositionsOf("DiscoverCase") :
              i < j => StrLess(delivered[i].name, delivered[j].name)
         /\ Ascending(cases)
    /\ threaded = Some(FALSE) =>
         LET selected == RunTrueNames(SubSeq(delivered, 2, Cardinality(registry) + 1))
             started == NamesOf("CaseStart", delivered)
             completed == NamesOf("CaseComplete", delivered)
         IN /\ IsPrefix(started, selected)
            /\ IsPrefix(completed, started)
            /\ Len(started) <= Len(completed) + 1
            /\ (RunFinished /\ ~opts.fail_fast) => completed = selected
            /\ seed = None => Ascending(started)

C21_Witness ==
    /\ RunFinished
    /\ threaded = Some(FALSE)
    /\ seed = None
    /\ Cardinality(registry) = 3
    /\ NamesOf("CaseStart", delivered) = << <<1>>, <<1, 2>> >>
    /\ Len(NamesOf("CaseComplete", delivered)) = 2

(***************************************************************************)
(* C22.  An I/O error ends the run at once: the step in which the error    *)
(* occurs delivers nothing and leaves the process exited with a code other *)
(* than 0, the worker threads ended with it; afterwards nothing changes,   *)
(* so no event (no SuiteComplete) is delivered behind the failing one and  *)
(* no case is started.                                                     *)
(***************************************************************************)
C22_IoErrorAborts ==
    [][ /\ (io_error' /\ ~io_error) =>
             /\ delivered' = delivered
             /\ pc' = "exit"
             /\ exitCode' \in {Some(1), Some(101)}
             /\ exitCode' = IF Delivered("DiscoverComplete") THEN Some(101) ELSE Some(1)
             /\ \A n \in Names : wpc'[n] = "idle"
        /\ ~io_error
      ]_vars

C22_Witness ==
    /\ io_error
    /\ exitCode = Some(101)
    /\ IsMultithreaded(opts)
    /\ Len(launched) >= 2
    /\ remaining # <<>>
    /\ \E i \in PositionsOf("CaseStart") : i = Len(delivered)

(***************************************************************************)
(* C23.  A configuration error is reported once and ends the process with  *)
(* exit code 1, nothing discovered and no body run.  What main prints as a *)
(* configuration error is always of that kind; and arguments that hold an  *)
(* unrecognized flag or value, both --include-ignored and --ignored, or an *)
(* unstable flag without -Zunstable-options never get past parsing, where  *)
(* the arguments are taken in order: a -h or --help lexed before the error *)
(* is met prints the help and exits with 0 instead.                        *)
(***************************************************************************)
Args == Tail(parser.raw)
BadArgs ==
    {"--bogus", "-x", "--=x", "--list=yes", "--", "--test-threads=0", "--color=blue",
     "--format=xml"}
UnstableArgs ==
    {"--shuffle", "--shuffle-seed=1", "--format=json", "--format=junit", "--format=xml",
     "--force-run-in-process", "--exclude-should-panic"}
Permitted ==
    \/ "-Zunstable-options" \in Range(Args)
    \/ \E i \in 1..(Len(Args) - 1) : Args[i] = "-Z" /\ Args[i + 1] = "unstable-options"
BadAt(i) == Args[i] \in BadArgs
HelpAt(i) == Args[i] \in {"-h", "--help"}
ConfigErrorIn ==
    \/ \E i \in 1..Len(Args) : BadAt(i)
    \/ {"--include-ignored", "--ignored"} \subseteq Range(Args)
    \/ /\ Range(Args) \cap UnstableArgs # {}
       /\ ~Permitted
HelpFirst ==
    \E i \in 1..Len(Args) : HelpAt(i) /\ \A j \in 1..(i - 1) : ~BadAt(j)
PastParse == pc \notin {"bin", "parse", "notifier"}
NothingRan == delivered = <<>> /\ \A n \in Names : runs[n] = 0 /\ wpc[n] = "idle"
ReportedOnce == pc = "exit" /\ exitCode = Some(1) /\ Len(stderr) = 1 /\ NothingRan
HelpShown == pc = "exit" /\ exitCode = Some(0) /\ stderr = <<>> /\ NothingRan

C23_AsClaimed == (PastParse /\ ConfigErrorIn) => ReportedOnce

C23_ConfigError ==
    /\ stderr # <<>> => ReportedOnce
    /\ (PastParse /\ ConfigErrorIn) => IF HelpFirst THEN HelpShown ELSE ReportedOnce
    /\ (PastParse /\ HelpFirst) => HelpShown

C23_Witness ==
    /\ Args = <<"--ignored", "11", "--include-ignored">>
    /\ ReportedOnce
    /\ test_opts.opts.filters = << <<1, 1>> >>

(***************************************************************************)
(* C24.  The Summary is a function of the events delivered so far: after   *)
(* any of them num_run and num_filtered_out count the DiscoverCase events  *)
(* with run true and run false, and num_passed, num_failed and num_ignored *)
(* count the CaseComplete events by status; once SuiteComplete has arrived *)
(* in a run without fail-fast the three add up to num_run.                 *)
(***************************************************************************)
CountWhere(type, P(_)) == Cardinality({ i \in PositionsOf(type) : P(delivered[i]) })
C24_SummaryCounts ==
    LET s == SummaryAfter(Summary_default, delivered)
        Run(e) == e.run
        Out(e) == ~e.run
        Passed(e) == e.status = None
        Failed(e) == e.status = Some("Failed")
        Ignored(e) == e.status = Some("Ignored")
    IN /\ s.num_run = CountWhere("DiscoverCase", Run)
       /\ s.num_filtered_out = CountWhere("DiscoverCase", Out)
       /\ s.num_run + s.num_filtered_out = Cardinality(PositionsOf("DiscoverCase"))
       /\ s.num_passed = CountWhere("CaseComplete", Passed)
       /\ s.num_failed = CountWhere("CaseComplete", Failed)
       /\ s.num_ignored = CountWhere("CaseComplete", Ignored)
       /\ s.num_passed + s.num_failed + s.num_ignored = Cardinality(PositionsOf("CaseComplete"))
       /\ (Delivered("SuiteComplete") /\ ~opts.fail_fast) =>
            s.num_passed + s.num_failed + s.num_ignored = s.num_run

C24_Witness ==
    LET s == SummaryAfter(Summary_default, delivered)
    IN /\ Delivered("SuiteComplete")
       /\ ~opts.fail_fast
       /\ IsMultithreaded(opts)
       /\ s.num_passed = 1 /\ s.num_failed = 1 /\ s.num_ignored = 1

(***************************************************************************)
(* notify::TerseRunNotifier.  The writer is the sequence of the texts      *)
(* written, one per write! or writeln!; styles have no width and are left  *)
(* out, the elapsed time is written as [..].                               *)
(***************************************************************************)
RECURSIVE NameStr(_)
NameStr(n) == IF n = <<>> THEN "" ELSE ToString(Head(n)) \o NameStr(Tail(n))

write_start(s) ==
    << "\n",
       "running " \o ToString(s.num_run) \o " test"
          \o (IF s.num_run = 1 THEN "" ELSE "s")
          \o (IF s.seed = None THEN "" ELSE " (shuffle seed: " \o ToString(s.seed[1]) \o ")")
          \o "\n" >>

(* The failures map in its order, the order of the names. *)
FailureList(s) ==
    LET names == SortedNames({ f[1] : f \in s.failures })
        msg(n) == (CHOOSE f \in s.failures : f[1] = n)[2]
    IN [i \in 1..Len(names) |-> <<names[i], msg(names[i])>>]

RECURSIVE FailureMessages(_)
FailureMessages(fs) ==
    IF fs = <<>> THEN <<>>
    ELSE (IF Head(fs)[2] = None THEN <<>>
          ELSE << "---- " \o NameStr(Head(fs)[1]) \o " ----\n", Head(fs)[2][1] \o "\n", "\n" >>)
         \o FailureMessages(Tail(fs))

write_complete(s) ==
    (IF has_failed(s)
     THEN << "\n", "failures:\n", "\n" >> \o FailureMessages(FailureList(s))
          \o << "\n", "failures:\n" >>
          \o [i \in 1..Len(FailureList(s)) |-> "    " \o NameStr(FailureList(s)[i][1]) \o "\n"]
     ELSE <<>>)
    \o << "\n",
          "test result: " \o (IF has_failed(s) THEN "FAILED" ELSE "ok") \o ". "
             \o ToString(s.num_passed) \o " passed; " \o ToString(s.num_failed) \o " failed; "
             \o ToString(s.num_ignored) \o " ignored; " \o ToString(s.num_filtered_out)
             \o " filtered out; finished in [..]s\n",
          "\n" >>

TerseRunNotifier_new == [writer |-> <<>>, summary |-> Summary_default]

(* Fault: a terse renderer that marks the start of a case as well. *)
TerseRunNotifier_notify_marks_start(t, event) ==
    LET s == Summary_notify(t.summary, event)
    IN [summary |-> s,
        writer |-> t.writer \o
          CASE event.type = "SuiteStart" -> write_start(s)
            [] event.type = "CaseStart" -> << "." >>
            [] event.type = "CaseComplete" ->
                 << IF event.status = Some("Ignored") THEN "i"
                    ELSE IF event.status = Some("Failed") THEN "F" ELSE "." >>
            [] event.type = "SuiteComplete" -> write_complete(s)
            [] OTHER -> <<>>]

TerseRunNotifier_notify(t, event) ==
    LET s == Summary_notify(t.summary, event)
    IN [summary |-> s,
        writer |-> t.writer \o
          CASE event.type = "SuiteStart" -> write_start(s)
            [] event.type = "CaseComplete" ->
                 << IF event.status = Some("Ignored") THEN "i"
                    ELSE IF event.status = Some("Failed") THEN "F" ELSE "." >>
            [] event.type = "SuiteComplete" -> write_complete(s)
            [] OTHER -> <<>>]

RECURSIVE TerseAfter(_, _)
TerseAfter(t, events) ==
    IF events = <<>> THEN t
    ELSE TerseAfter(TerseRunNotifier_notify(t, Head(events)), Tail(events))

(***************************************************************************)
(* C25.  The terse run renderer writes nothing on CaseStart and one        *)
(* character on CaseComplete: `.` for a pass, `F` for a failure, `i` for   *)
(* an ignored case; the characters written are those of the CaseComplete   *)
(* events in the order delivered, and in a sequential run without shuffle  *)
(* they are the outcomes of the selected cases in the order of the names.  *)
(***************************************************************************)
IsMark(w) == w \in {".", "F", "i"}
Front(q) == SubSeq(q, 1, Len(q) - 1)
TerseInUse == pc \notin {"bin", "parse", "notifier"} /\ opts.format = "Terse" /\ ~opts.list
C25_TerseMarks ==
    (TerseInUse /\ delivered # <<>>) =>
        LET before == TerseAfter(TerseRunNotifier_new, Front(delivered)).writer
            after == TerseAfter(TerseRunNotifier_new, delivered).writer
            last == delivered[Len(delivered)]
            marks == SelectSeq(after, IsMark)
            done == SelectSeq(delivered, LAMBDA e : e.type = "CaseComplete")
            selected == SortedNames({ delivered[i].name : i \in
                          { j \in PositionsOf("DiscoverCase") : delivered[j].run } })
        IN /\ last.type = "CaseStart" => after = before
           /\ last.type = "CaseComplete" =>
                /\ Len(after) = Len(before) + 1
                /\ last.status = None => after[Len(after)] = "."
                /\ last.status = Some("Failed") => after[Len(after)] = "F"
                /\ last.status = Some("Ignored") => after[Len(after)] = "i"
           /\ Len(marks) = Len(done)
           /\ \A k \in 1..Len(marks) :
                marks[k] = "." <=> done[k].status = None
           /\ \A k \in 1..Len(marks) :
                marks[k] = "i" <=> done[k].status = Some("Ignored")
           /\ (threaded = Some(FALSE) /\ seed = None) =>
                \A k \in 1..Len(marks) :
                   /\ k <= Len(selected)
                   /\ marks[k] = "." <=> OwnOutcome(selected[k]).status = None
                   /\ marks[k] = "i" <=> OwnOutcome(selected[k]).status = Some("Ignored")

C25_Witness ==
    /\ TerseInUse
    /\ threaded = Some(FALSE)
    /\ Delivered("SuiteComplete")
    /\ SelectSeq(TerseAfter(TerseRunNotifier_new, delivered).writer, IsMark) = <<".", "F", "i">>

(***************************************************************************)
(* notify::JunitRunNotifier.  The names of the cases have no `::`, so      *)
(* parse_class_name gives the class `crate`; times are written as [..].    *)
(***************************************************************************)
parse_class_name(name) == <<"crate", NameStr(name)>>

OpenTag(name) ==
    "<testcase classname=\"" \o parse_class_name(name)[1] \o "\" name=\""
       \o parse_class_name(name)[2] \o "\" time=\"[..]\""

(* Fault: a document that lists the ignored cases as well. *)
testcase_with_ignored(event) ==
    IF event.type # "CaseComplete" THEN <<>>
    ELSE IF event.status = Some("Failed")
    THEN << OpenTag(event.name) \o ">\n",
            IF event.message # None
            THEN "<failure message=\"" \o event.message[1] \o "\" type=\"assert\"/>\n"
            ELSE "<failure type=\"assert\"/>\n",
            "</testcase>\n" >>
    ELSE << OpenTag(event.name) \o "/>\n" >>

(* What the loop over the taken events writes for one of them. *)
testcase(event) ==
    IF event.type # "CaseComplete" \/ event.status = Some("Ignored") THEN <<>>
    ELSE IF event.status = Some("Failed")
    THEN << OpenTag(event.name) \o ">\n",
            IF event.message # None
            THEN "<failure message=\"" \o event.message[1] \o "\" type=\"assert\"/>\n"
            ELSE "<failure type=\"assert\"/>\n",
            "</testcase>\n" >>
    ELSE << OpenTag(event.name) \o "/>\n" >>

RECURSIVE testcases(_)
testcases(events) ==
    IF events = <<>> THEN <<>> ELSE testcase(Head(events)) \o testcases(Tail(events))

testsuite(events) ==
    LET num(P(_)) == Cardinality({ i \in 1..Len(events) : P(events[i]) })
        run(e) == e.type = "DiscoverCase" /\ e.run
        failed(e) == e.type = "CaseComplete" /\ e.status = Some("Failed")
        ignored(e) == e.type = "CaseComplete" /\ e.status = Some("Ignored")
    IN "<testsuite name=\"test\" package=\"test\" id=\"0\" tests=\"" \o ToString(num(run))
         \o "\" errors=\"0\" failures=\"" \o ToString(num(failed))
         \o "\" skipped=\"" \o ToString(num(ignored)) \o "\" >\n"

JunitRunNotifier_new == [writer |-> <<>>, events |-> <<>>]

JunitRunNotifier_notify(j, event) ==
    LET events == Append(j.events, event)
    IN IF event.type # "SuiteComplete" THEN [j EXCEPT !.events = events]
       ELSE [events |-> <<>>,
             writer |-> j.writer
                \o << "<?xml version=\"1.0\" encoding=\"UTF-8\"?>\n", "<testsuites>\n",
                      testsuite(events) >>
                \o testcases(events)
                \o << "<system-out/>\n", "<system-err/>\n", "</testsuite>\n",
                      "</testsuites>\n" >>]

RECURSIVE JunitAfter(_, _)
JunitAfter(j, events) ==
    IF events = <<>> THEN j
    ELSE JunitAfter(JunitRunNotifier_notify(j, Head(events)), Tail(events))

(***************************************************************************)
(* C26.  The JUnit renderer writes nothing before SuiteComplete and keeps  *)
(* the events; on SuiteComplete it writes one document and empties its     *)
(* buffer.  The testsuite line gives tests as the number of DiscoverCase   *)
(* events with run true, failures as the number of Failed and skipped as   *)
(* the number of Ignored CaseComplete events; the testcase elements are,   *)
(* in order, the CaseComplete events that are not Ignored, and a failure   *)
(* element follows the opening of exactly the Failed ones.                 *)
(***************************************************************************)
JunitInUse == pc \notin {"bin", "parse", "notifier"} /\ opts.format = "Junit" /\ ~opts.list
IsTestcase(w) == starts_with(w, "<testcase ")
IsFailure(w) == starts_with(w, "<failure ")
C26_JunitDocument ==
    JunitInUse =>
        LET j == JunitAfter(JunitRunNotifier_new, delivered)
            w == j.writer
            reported == SelectSeq(delivered,
                          LAMBDA e : e.type = "CaseComplete" /\ e.status # Some("Ignored"))
            at == SelectSeq([i \in 1..Len(w) |-> i], LAMBDA i : IsTestcase(w[i]))
            tests == CountWhere("DiscoverCase", LAMBDA e : e.run)
            failures == CountWhere("CaseComplete", LAMBDA e : e.status = Some("Failed"))
            skipped == CountWhere("CaseComplete", LAMBDA e : e.status = Some("Ignored"))
        IN IF ~Delivered("SuiteComplete")
           THEN w = <<>> /\ j.events = delivered
           ELSE /\ j.events = <<>>
                /\ Cardinality({ i \in 1..Len(w) : w[i] = "<testsuites>\n" }) = 1
                /\ w[3] = "<testsuite name=\"test\" package=\"test\" id=\"0\" tests=\""
                            \o ToString(tests) \o "\" errors=\"0\" failures=\""
                            \o ToString(failures) \o "\" skipped=\"" \o ToString(skipped)
                            \o "\" >\n"
                /\ Len(at) = Len(reported)
                /\ \A k \in 1..Len(at) :
                     /\ starts_with(w[at[k]],
                          "<testcase classname=\"crate\" name=\"" \o NameStr(reported[k].name)
                             \o "\"")
                     /\ IsFailure(w[at[k] + 1]) <=> reported[k].status = Some("Failed")
                /\ Cardinality({ i \in 1..Len(w) : IsFailure(w[i]) }) = failures

C26_Witness ==
    /\ JunitInUse
    /\ Delivered("SuiteComplete")
    /\ threaded = Some(TRUE)
    /\ LET w == JunitAfter(JunitRunNotifier_new, delivered).writer
       IN /\ Len(SelectSeq(w, IsTestcase)) = 2
          /\ Len(SelectSeq(w, IsFailure)) = 1
          /\ Len(w) = 11

(***************************************************************************)
(* C27.  When discovery leaves exactly one case selected the run is        *)
(* sequential whatever worker count was asked for: the notifier is told    *)
(* threaded(false), no worker thread exists at any time (nothing pending,  *)
(* nothing in the channel), and the body of the case is run by run_case in *)
(* the main thread, once.                                                  *)
(***************************************************************************)
OneSelected ==
    /\ Delivered("DiscoverComplete")
    /\ Cardinality({ i \in PositionsOf("DiscoverCase") : delivered[i].run }) = 1
C27_SingleCaseIsSequential ==
    OneSelected =>
        /\ opts.test_threads = Some(1)
        /\ threaded \in {None, Some(FALSE)}
        /\ Delivered("SuiteStart") => threaded = Some(FALSE)
        /\ \A n \in Names : wpc[n] = "idle"
        /\ pending = 0 /\ running_tests = {} /\ chan = <<>>
        /\ \A n \in Names :
             /\ runs[n] <= 1
             /\ runs[n] = 1 => (Delivered("CaseStart") /\ delivered[
                   CHOOSE i \in PositionsOf("CaseStart") : TRUE].name = n)
             /\ (Delivered("CaseComplete") /\ OwnOutcome(n).status # Some("Ignored")
                   /\ \E i \in PositionsOf("CaseComplete") : delivered[i].name = n)
                => runs[n] = 1

C27_Witness ==
    /\ OneSelected
    /\ test_opts.opts.test_threads = Some(2)
    /\ Cardinality(registry) = 2
    /\ runs[<<1, 1>>] = 1
    /\ cur = Some(<<1, 1>>)

(***************************************************************************)
(* C28, for the runs that end.  With fail-fast off a run that exits, in    *)
(* either mode and under any interleaving, ends with what a sequential run *)
(* over the selected cases ends with: one CaseComplete per case with its   *)
(* own status and message, the Summary folded from them, success and the   *)
(* exit code by whether any of them failed.                                *)
(***************************************************************************)
Completes == { <<delivered[i].name, delivered[i].status, delivered[i].message>> :
                 i \in PositionsOf("CaseComplete") }
SequentialCompletes ==
    { <<n, OwnOutcome(n).status, OwnOutcome(n).message>> : n \in Selected }
SequentialFailures ==
    { <<n, OwnOutcome(n).message>> : n \in { m \in Selected : OwnOutcome(m).status = Some("Failed") } }
AllCompleted ==
    /\ Completes = SequentialCompletes
    /\ Cardinality(PositionsOf("CaseComplete")) = Cardinality(Selected)

C28_FinishedRunsAgree ==
    (~opts.fail_fast /\ ~io_error /\ pc = "exit" /\ ~opts.list) =>
        LET s == SummaryAfter(Summary_default, delivered)
        IN /\ AllCompleted
           /\ s.num_passed =
                Cardinality({ n \in Selected : OwnOutcome(n).status = None })
           /\ s.num_ignored =
                Cardinality({ n \in Selected : OwnOutcome(n).status = Some("Ignored") })
           /\ s.num_failed = Cardinality(SequentialFailures)
           /\ s.failures = SequentialFailures
           /\ success = (SequentialFailures = {})
           /\ exitCode = Some(IF SequentialFailures = {} THEN 0 ELSE 101)

C28_FinishedWitness ==
    /\ ~opts.fail_fast /\ ~io_error /\ pc = "exit"
    /\ threaded = Some(TRUE)
    /\ Cardinality(Selected) = 3
    /\ Cardinality(SequentialFailures) = 2
    /\ NamesOf("CaseComplete", delivered) # SortedNames(Selected)

(***************************************************************************)
(* C28, as claimed: with fail-fast off a concurrent run ends with what the *)
(* sequential run ends with; so once its cases have all completed, with    *)
(* no worker running and nothing in the channel, the coordinator is not    *)
(* left in rx.recv(), where the final success and exit code never come.    *)
(***************************************************************************)
C28_AsClaimed ==
    /\ C28_FinishedRunsAgree
    /\ (~opts.fail_fast /\ threaded = Some(TRUE) /\ AllCompleted /\ chan = <<>>
          /\ \A n \in Names : wpc[n] \in {"idle", "finished"})
       => ~WaitsInRecv

(***************************************************************************)
(* C29.  Once next() has returned Escape for a `--` the parser is escaped  *)
(* and stays so.  An escaped parser's next() returns the next raw argument *)
(* unchanged as a Value, whatever it looks like, and moves on by one; its  *)
(* flag_value() returns None and changes nothing; and with the arguments   *)
(* exhausted next() returns None, again and again.                         *)
(***************************************************************************)
IsEscaped(p) == p.state.kind = "Escaped"
Exhausted(p) == p.current >= Len(p.raw)
C29_EscapedIsPositional ==
    /\ (ret.method = "next" /\ ret.value = Some(Escape)) =>
         /\ IsEscaped(parser)
         /\ parser.raw[parser.current] = "--"
    /\ IsEscaped(parser) =>
         /\ IsEscaped(next(parser).parser)
         /\ ~Exhausted(parser) =>
              /\ next(parser).ret = Some(Value(parser.raw[parser.current + 1]))
              /\ next(parser).parser.current = parser.current + 1
         /\ Exhausted(parser) =>
              /\ next(parser).ret = None
              /\ next(parser).parser.current = parser.current
              /\ next(next(parser).parser).ret = None
         /\ flag_value(parser).ret = None
         /\ flag_value(parser).parser = parser
    /\ (Exhausted(parser) /\ parser.state.kind \in {"None", "Escaped"}) =>
         /\ next(parser).ret = None
         /\ next(next(parser).parser) = next(parser)

C29_Witness ==
    /\ parser.raw = <<"--", "-x", "">>
    /\ IsEscaped(parser)
    /\ Exhausted(parser)
    /\ ret = Returned("next", Some(Value("")))

(***************************************************************************)
(* C30, as claimed.  After next() has returned a flag whose argument goes  *)
(* on (--bar=qux, -a=b, -fvalue) the first flag_value() returns the value  *)
(* attached: the text after the first `=` of a long flag, the text after   *)
(* the letter of a short flag less one leading `=`; a second flag_value()  *)
(* returns None and consumes nothing.  After a flag whose argument ends    *)
(* with it flag_value() returns the following raw argument whatever it     *)
(* looks like, except that `--` yields None and leaves the parser escaped. *)
(***************************************************************************)
AfterFlag ==
    /\ ret.method = "next"
    /\ ret.value # None
    /\ ret.value[1].kind \in {"Short", "Long"}
HasAttached == parser.state.kind \in {"PendingValue", "PendingShorts"}
AttachedText ==
    LET arg == parser.raw[parser.current + 1]
        rest == From(arg, parser.state.index)
    IN IF parser.state.kind = "PendingValue"
       THEN IF starts_with(arg, "--") THEN From(arg, FindEq(arg) + 1)
            ELSE From(arg, valid_up_to(arg))
       ELSE IF starts_with(rest, "=") THEN From(rest, 1) ELSE rest
GivesAttached(text) ==
    LET first == flag_value(parser)
        second == flag_value(first.parser)
    IN /\ first.ret = Some(text)
       /\ first.parser.current = parser.current + 1
       /\ second.ret = None
       /\ second.parser = first.parser
GivesFollowing ==
    LET r == flag_value(parser)
        following == parser.raw[parser.current + 1]
    IN IF Exhausted(parser) THEN r.ret = None /\ r.parser = parser
       ELSE /\ r.parser.current = parser.current + 1
            /\ IF following = "--"
               THEN r.ret = None /\ IsEscaped(r.parser)
               ELSE r.ret = Some(following) /\ r.parser.state.kind = "None"

C30_AsClaimed ==
    AfterFlag => IF HasAttached THEN GivesAttached(AttachedText) ELSE GivesFollowing

(***************************************************************************)
(* C30, but for a short flag whose attached text holds an `=` further in:  *)
(* there flag_value() returns what follows that first `=`.                 *)
(***************************************************************************)
CutAtEquals(text) == IF FindEq(text) < Len(text) THEN From(text, FindEq(text) + 1) ELSE text
C30_FlagValueElsewhere ==
    AfterFlag =>
        IF HasAttached
        THEN IF parser.state.kind = "PendingShorts"
             THEN GivesAttached(CutAtEquals(From(parser.raw[parser.current + 1],
                                                 parser.state.index)))
             ELSE GivesAttached(AttachedText)
        ELSE GivesFollowing

C30_ElsewhereWitness ==
    /\ parser.raw = <<"-a=b", "--foo", "--">>
    /\ ret = Returned("flag_value", None)
    /\ IsEscaped(parser)

(***************************************************************************)
(* C31.  When next() has returned a flag whose argument goes on after an   *)
(* `=` (--foobar=qux=baz, -a=b) and no flag_value() took the value, the    *)
(* following next() returns the text after that `=` as Unexpected; it      *)
(* leaves no state behind and moves to the following raw argument, so the  *)
(* value is handed out once and the call after it lexes the next argument. *)
(***************************************************************************)
EqualsPending(p) ==
    /\ p.current < Len(p.raw)
    /\ LET arg == p.raw[p.current + 1]
       IN \/ p.state.kind = "PendingValue" /\ starts_with(arg, "--")
          \/ /\ p.state.kind = "PendingShorts"
             /\ SubSeq(arg, p.state.index + 1, p.state.index + 1) = "="
EqualsValue(p) ==
    LET arg == p.raw[p.current + 1]
    IN IF p.state.kind = "PendingValue" THEN From(arg, FindEq(arg) + 1)
       ELSE From(arg, p.state.index + 1)
FreshAt(raw, current) == [Parser_new(raw) EXCEPT !.current = current]
C31_UnconsumedIsUnexpected ==
    [][ (EqualsPending(parser) /\ ret'.method = "next") =>
            /\ ret'.value = Some(Unexpected(EqualsValue(parser)))
            /\ parser' = FreshAt(parser.raw, parser.current + 1)
            /\ next(parser') = next_fresh(FreshAt(parser.raw, parser.current + 1))
      ]_vars

C31_Witness ==
    /\ parser.raw = <<"-a=b", "--bar=qux", "v">>
    /\ parser = FreshAt(parser.raw, 2)
    /\ ret = Returned("next", Some(Unexpected("qux")))

(***************************************************************************)
(* C32.  Under every interleaving of next() and flag_value() on a finite   *)
(* argument list the parser never panics; every call that returns          *)
(* something uses up part of what is left to lex (the bytes of the         *)
(* arguments from the cursor on, less the part of the current argument     *)
(* already handed out), so only a bounded number of calls return           *)
(* something; and whenever next() has returned None the state is None or   *)
(* Escaped and the cursor equals the number of raw arguments.              *)
(***************************************************************************)
RECURSIVE LeftFrom(_, _)
LeftFrom(raw, i) == IF i > Len(raw) THEN 0 ELSE Len(raw[i]) + 2 + LeftFrom(raw, i + 1)
HandedOut(p) ==
    CASE p.state.kind = "PendingShorts" -> p.state.index
      [] p.state.kind = "PendingValue" -> Len(p.raw[p.current + 1]) + 1
      [] OTHER -> 0
LeftToLex(p) == LeftFrom(p.raw, p.current + 1) - HandedOut(p)
NextGaveNone == ret = Returned("next", None)
C32_NoPanicNoLoop ==
    /\ [](/\ pc # "panicked"
          /\ LeftToLex(parser) >= 0
          /\ NextGaveNone =>
               /\ parser.state.kind \in {"None", "Escaped"}
               /\ parser.current = Len(parser.raw))
    /\ [][ret'.value # None => LeftToLex(parser') < LeftToLex(parser)]_vars

C32_Witness ==
    /\ parser.raw = <<"-a@", "--bar=qux", "--">>
    /\ NextGaveNone
    /\ IsEscaped(parser)
    /\ parser.current = 3

(***************************************************************************)
(* C33.  Whenever the parser has pending state (an attached value nobody   *)
(* took, a cluster of short flags not yet finished) next() returns a Short *)
(* or an Unexpected and flag_value() returns Some value; and after any     *)
(* flag_value(), whatever it returned, no pending state is left.           *)
(***************************************************************************)
C33_PendingState ==
    /\ has_pending(parser) =>
         /\ next(parser).ret # None
         /\ next(parser).ret[1].kind \in {"Short", "Unexpected"}
         /\ flag_value(parser).ret # None
    /\ ~has_pending(flag_value(parser).parser)
    /\ ret.method = "flag_value" => ~has_pending(parser)

C33_Witness ==
    /\ parser.raw = <<"-fa=b", "-a@", "--a=@">>
    /\ parser.current = 2
    /\ ret = Returned("flag_value", Some("@"))
    /\ has_pending(next(parser).parser)

(***************************************************************************)
(* C34, as claimed.  bin() panics when the call before it was next(); as   *)
(* the first call it returns the first raw argument, or None for an empty  *)
(* list, and moves past it.                                                *)
(***************************************************************************)
BinCalledFirst ==
    LET b == bin(parser)
    IN /\ ~b.panicked
       /\ b.ret = Get(parser.raw, 0)
       /\ b.parser.current = IF parser.raw = <<>> THEN 0 ELSE 1
C34_AsClaimed ==
    /\ ret.method = "next" => bin(parser).panicked
    /\ ret.method = "new" => BinCalledFirst

(***************************************************************************)
(* C34, for what the assertion of bin() looks at: bin() panics exactly     *)
(* when the cursor has left the first argument, which a next() that        *)
(* returned a flag with more of its argument pending, or None for an empty *)
(* list, has not done; called first it returns the first raw argument.     *)
(***************************************************************************)
C34_BinPanicsPastFirst ==
    /\ bin(parser).panicked <=> parser.current # 0
    /\ ret.method = "new" => BinCalledFirst
    /\ (ret.method = "bin" /\ pc # "panicked") =>
         /\ ret.value = Get(parser.raw, 0)
         /\ parser.current = IF parser.raw = <<>> THEN 0 ELSE 1

C34_PastFirstWitness ==
    /\ parser.raw = <<"--bar=qux", "v">>
    /\ ret = Returned("bin", Some("--bar=qux"))
    /\ parser.state = PendingValue("qux")
    /\ parser.current = 1

(***************************************************************************)
(* C35, as claimed.  For each of the three holders of raw arguments and    *)
(* every argument list, is_empty() is true exactly when len() is 0.        *)
(***************************************************************************)
C35_AsClaimed ==
    ret.method = "is_empty" =>
        (ret.value = Some(TRUE) <=> len(raw_type, parser.raw) = 0)

(***************************************************************************)
(* C35, for the slice and the Vec: there is_empty() is true exactly when   *)
(* len() is 0; the fixed-size array answers the opposite.                  *)
(***************************************************************************)
C35_SliceAndVec ==
    /\ raw_type \in {"slice", "Vec"} =>
         (is_empty(raw_type, parser.raw) <=> len(raw_type, parser.raw) = 0)
    /\ raw_type = "array" =>
         (is_empty(raw_type, parser.raw) <=> len(raw_type, parser.raw) # 0)
    /\ ret.method = "len" => ret.value = Some(Len(parser.raw))

C35_SliceAndVecWitness ==
    /\ raw_type = "Vec"
    /\ parser.raw = <<>>
    /\ ret = Returned("is_empty", Some(TRUE))

(***************************************************************************)
(* C36, as claimed.  When a run has finished with SuiteComplete, in either *)
(* mode and with fail-fast on or off, run returned false (exit code 101)   *)
(* exactly when a CaseComplete with status Failed was delivered.           *)
(***************************************************************************)
FailureDelivered ==
    \E i \in 1..Len(delivered) :
        delivered[i].type = "CaseComplete" /\ delivered[i].status = Some("Failed")
C36_AsClaimed ==
    RunFinished =>
        /\ ~success <=> FailureDelivered
        /\ exitCode = Some(IF FailureDelivered THEN ERROR_EXIT_CODE ELSE 0)

(***************************************************************************)
(* C36, apart from the concurrent fail-fast break: when a run has finished *)
(* with SuiteComplete a delivered failure always makes run return false    *)
(* (exit code 101), and in sequential mode or without fail-fast run        *)
(* returns false only when a failure was delivered.                        *)
(***************************************************************************)
C36_FailureMeansFalse ==
    RunFinished =>
        /\ FailureDelivered => (~success /\ exitCode = Some(ERROR_EXIT_CODE))
        /\ (~opts.fail_fast \/ ~IsMultithreaded(opts)) =>
             /\ ~success => FailureDelivered
             /\ exitCode = Some(IF FailureDelivered THEN ERROR_EXIT_CODE ELSE 0)

C36_FailureWitness ==
    /\ RunFinished
    /\ IsMultithreaded(opts)
    /\ opts.fail_fast
    /\ FailureDelivered
    /\ Cardinality(PositionsOf("CaseComplete")) = 3
    /\ exitCode = Some(ERROR_EXIT_CODE)

(***************************************************************************)
(* C40.  In concurrent mode, when the coordinator takes a CaseComplete     *)
(* from the channel and delivers it: if the worker thread of that case     *)
(* ended by panicking and the event came with passing status, what is      *)
(* delivered is that event with status Failed and the message `panicked    *)
(* after reporting success`; an event that came Failed or Ignored, and any *)
(* event of a worker that ended normally, is delivered as it came.         *)
(***************************************************************************)
TakesCaseComplete ==
    /\ pc = "loop"
    /\ chan # <<>>
    /\ Head(chan).type = "CaseComplete"
    /\ chan' = Tail(chan)
    /\ Len(delivered') = Len(delivered) + 1
C40_PanicAfterSuccess ==
    [][ TakesCaseComplete =>
          LET ev == Head(chan)
              given == delivered'[Len(delivered')]
          IN IF wpc[ev.name] = "panicked" /\ ev.status = None
             THEN given = EvCaseComplete(ev.name,
                              [status |-> Some("Failed"),
                               message |-> Some("panicked after reporting success")])
             ELSE given = ev
      ]_vars

C40_Witness ==
    /\ RunFinished
    /\ \E i, j, k \in 1..Len(delivered) :
         /\ delivered[i] = EvCaseComplete(<<3>>,
                              [status |-> Some("Failed"),
                               message |-> Some("panicked after reporting success")])
         /\ delivered[j] = EvCaseComplete(<<3, 1>>, Outcome(<<3, 1>>, run_ignored))
         /\ delivered[k] = EvCaseComplete(<<3, 2>>, Outcome(<<3, 2>>, run_ignored))
         /\ delivered[k].status = Some("Ignored")

(***************************************************************************)
(* C37.  In concurrent mode (case names are unique: the registry is a set) *)
(* pending always equals the number of entries of running_tests; every     *)
(* CaseComplete in the channel names a case that has its entry there, so   *)
(* the lookup-and-remove finds it; a CaseComplete that came from a worker   *)
(* is delivered only once that worker's thread has ended; and when the     *)
(* loop has ended by its condition, not by the fail-fast break, pending is *)
(* 0 and running_tests is empty.                                           *)
(***************************************************************************)
CompleteInChannel(n) ==
    \E i \in 1..Len(chan) : chan[i].type = "CaseComplete" /\ chan[i].name = n
CompleteDelivered(n) ==
    \E i \in 1..Len(delivered) :
        delivered[i].type = "CaseComplete" /\ delivered[i].name = n
C37_PendingIsRegistry ==
    /\ pending = Cardinality(running_tests)
    /\ \A n \in Names :
         /\ CompleteInChannel(n) => n \in running_tests
         /\ (pc # "exit" /\ CompleteDelivered(n)) =>
              /\ wpc[n] \in {"idle", "finished", "panicked"}
              /\ n \notin running_tests
         /\ (pc # "exit" /\ wpc[n] \in {"start", "body", "store"}) => n \in running_tests
    /\ (pc = "suite_complete" /\ IsMultithreaded(opts) /\ ~FailFastBreak(success, opts)) =>
         /\ pending = 0
         /\ running_tests = {}

C37_Witness ==
    /\ pc = "suite_complete"
    /\ IsMultithreaded(opts)
    /\ ~opts.fail_fast
    /\ pending = 0
    /\ running_tests = {}
    /\ Cardinality({ n \in Names : wpc[n] = "finished" }) = 3

(***************************************************************************)
(* notify::PrettyRunNotifier.  The writer is the sequence of texts         *)
(* written, one per write!/writeln!; styles are left out.  `{: <1$}` pads  *)
(* the name with blanks on the right up to name_width.                     *)
(***************************************************************************)
RECURSIVE Blanks(_)
Blanks(n) == IF n <= 0 THEN "" ELSE " " \o Blanks(n - 1)

PadRight(text, width) == text \o Blanks(width - Len(text))

StatusText(status) ==
    IF status = Some("Ignored") THEN "ignored"
    ELSE IF status = Some("Failed") THEN "FAILED" ELSE "ok"

PrettyRunNotifier_new ==
    [writer |-> <<>>, is_multithreaded |-> FALSE, summary |-> Summary_default,
     name_width |-> 0]

PrettyRunNotifier_threaded(p, yes) == [p EXCEPT !.is_multithreaded = yes]

CaseLead(p, name) == "test " \o PadRight(NameStr(name), p.name_width) \o " ... "

(* Fault: a pretty renderer that writes the name at CaseStart in every mode. *)
PrettyRunNotifier_notify_always_leads(p, event) ==
    LET s == Summary_notify(p.summary, event)
    IN [p EXCEPT
          !.summary = s,
          !.name_width = IF event.type = "DiscoverCase" /\ event.run
                         THEN IF Len(NameStr(event.name)) > @
                              THEN Len(NameStr(event.name)) ELSE @
                         ELSE @,
          !.writer = @ \o
            CASE event.type = "SuiteStart" -> write_start(s)
              [] event.type = "CaseStart" -> << CaseLead(p, event.name) >>
              [] event.type = "CaseComplete" ->
                   (IF p.is_multithreaded THEN << CaseLead(p, event.name) >> ELSE <<>>)
                   \o << StatusText(event.status) \o "\n" >>
              [] event.type = "SuiteComplete" -> write_complete(s)
              [] OTHER -> <<>>]

PrettyRunNotifier_notify(p, event) ==
    LET s == Summary_notify(p.summary, event)
    IN [p EXCEPT
          !.summary = s,
          !.name_width = IF event.type = "DiscoverCase" /\ event.run
                         THEN IF Len(NameStr(event.name)) > @
                              THEN Len(NameStr(event.name)) ELSE @
                         ELSE @,
          !.writer = @ \o
            CASE event.type = "SuiteStart" -> write_start(s)
              [] event.type = "CaseStart" ->
                   IF ~p.is_multithreaded THEN << CaseLead(p, event.name) >> ELSE <<>>
              [] event.type = "CaseComplete" ->
                   (IF p.is_multithreaded THEN << CaseLead(p, event.name) >> ELSE <<>>)
                   \o << StatusText(event.status) \o "\n" >>
              [] event.type = "SuiteComplete" -> write_complete(s)
              [] OTHER -> <<>>]

(* The renderer after the events delivered so far: run gives the hint      *)
(* right after it has delivered SuiteStart.                                *)
RECURSIVE PrettyAfter(_, _, _)
PrettyAfter(p, events, yes) ==
    IF events = <<>> THEN p
    ELSE LET q == PrettyRunNotifier_notify(p, Head(events))
         IN PrettyAfter(IF Head(events).type = "SuiteStart"
                        THEN PrettyRunNotifier_threaded(q, yes) ELSE q,
                        Tail(events), yes)

(***************************************************************************)
(* C38.  The pretty renderer pairs every status with the name of its       *)
(* case.  Without threads it writes `test <name> ... ` at CaseStart and    *)
(* the status alone at CaseComplete, and the CaseComplete of a case comes  *)
(* right after the CaseStart of the same case; with threads it writes      *)
(* nothing at CaseStart and the name and the status together at            *)
(* CaseComplete.  The hint is given before any CaseStart or CaseComplete   *)
(* is delivered, so each completed case gives exactly one line that names  *)
(* the case with its own status.                                           *)
(***************************************************************************)
PrettyInUse == pc \notin {"bin", "parse", "notifier"} /\ opts.format = "Pretty" /\ ~opts.list

HintGiven == threaded = Some(TRUE)

PrettyUpTo(k) == PrettyAfter(PrettyRunNotifier_new, SubSeq(delivered, 1, k), HintGiven)

WrittenAt(k) ==
    SubSeq(PrettyUpTo(k).writer, Len(PrettyUpTo(k - 1).writer) + 1, Len(PrettyUpTo(k).writer))

WidestRun ==
    LET lens == { Len(NameStr(delivered[i].name)) :
                    i \in { j \in 1..Len(delivered) :
                              delivered[j].type = "DiscoverCase" /\ delivered[j].run } }
    IN IF lens = {} THEN 0 ELSE CHOOSE m \in lens : \A l \in lens : l <= m

LeadOf(name) == "test " \o PadRight(NameStr(name), WidestRun) \o " ... "

LineOf(ev) == LeadOf(ev.name) \o StatusText(ev.status) \o "\n"

C38_EachCaseOneLine ==
    PrettyInUse =>
      \A k \in 1..Len(delivered) :
        LET ev == delivered[k]
        IN /\ ev.type \in {"CaseStart", "CaseComplete"} =>
                threaded = Some(IsMultithreaded(opts))
           /\ ev.type = "CaseStart" =>
                WrittenAt(k) = IF HintGiven THEN <<>> ELSE << LeadOf(ev.name) >>
           /\ ev.type = "CaseComplete" /\ HintGiven =>
                /\ Len(WrittenAt(k)) = 2
                /\ WrittenAt(k)[1] \o WrittenAt(k)[2] = LineOf(ev)
           /\ ev.type = "CaseComplete" /\ ~HintGiven =>
                /\ WrittenAt(k) = << StatusText(ev.status) \o "\n" >>
                /\ k > 1
                /\ delivered[k - 1] = EvCaseStart(ev.name)
                /\ WrittenAt(k - 1)[1] \o WrittenAt(k)[1] = LineOf(ev)

C38_Witness ==
    /\ PrettyInUse
    /\ HintGiven
    /\ Delivered("SuiteComplete")
    /\ \E i, j \in 1..Len(delivered) :
         /\ i < j
         /\ delivered[i].type = "CaseStart"
         /\ delivered[j].type = "CaseStart"
         /\ \E k \in (j + 1)..Len(delivered) :
              /\ delivered[k].type = "CaseComplete"
              /\ delivered[k].name = delivered[i].name
              /\ delivered[k].status = Some("Failed")
              /\ Len(NameStr(delivered[k].name)) < WidestRun

(***************************************************************************)
(* C39.  For every seed and every list of cases, the empty list and the    *)
(* lists of one case among them, shuffle_tests returns a permutation of    *)
(* its input: the length is unchanged and no case is dropped or            *)
(* duplicated.  At step i the swap exchanges position i with a position in *)
(* [i, len) and leaves the rest alone, so the assertion of randomize_first *)
(* never fires and no index is out of bounds; what is returned is what     *)
(* shuffle_tests computes from the seed and the list given.                *)
(***************************************************************************)
IsPermutation(s, S) == Len(s) = Cardinality(S) /\ Range(s) = S

C39_ShuffleIsPermutation ==
    /\ [](/\ pc # "panicked"
          /\ IsPermutation(cases, registry)
          /\ shuffle_i \in 0..Len(cases)
          /\ pc = "shuffled" =>
               \E given \in Perms(registry) :
                 /\ calculate_hash_names(given) = rng.extra
                 /\ cases = shuffle_tests(seed[1], given))
    /\ [][ shuffle_i' # shuffle_i =>
             \E idx \in shuffle_i..(Len(cases) - 1) :
                cases' = Swap(cases, shuffle_i + 1, idx + 1) ]_vars

C39_Witness ==
    /\ pc = "shuffled"
    /\ shuffle_i = MaxCases
    /\ cases # SortByName(cases)
    /\ rng.state # seed[1]

====
